---------------------------- MODULE Spec2Model ----------------------------
(***************************************************************************)
(* A model of the docscan application: the filter bank of                  *)
(* DocumentProcessingService, the corner ordering of EdgeDetectionService, *)
(* the capture -> corner adjustment -> editor flow, and the page session   *)
(* of DocEditorComponent.                                                  *)
(*                                                                         *)
(* The specifications share the module, each over its own variables:       *)
(*   FilterSpec  applyFilter on pixel buffers                              *)
(*   OrderSpec   orderPoints and the output size of perspectiveTransform   *)
(*   FlowSpec    detectAndCrop, the corner adjustment and confirm          *)
(*   AdjustSpec  the corner handles of EdgeAdjustComponent                 *)
(*   LoadSpec    loadImageToCanvas and its scaling                         *)
(*   ImportSpec  the import of images and PDF pages                        *)
(*   Spec        the editor: loadImage, page navigation, filters, save     *)
(*   SaveSpec    the editor with save() called again while it runs         *)
(*   DeleteSpec  deleteDocument on the library                             *)
(*   UpdateSpec  updateDocument on the library                             *)
(***************************************************************************)
EXTENDS Integers, Sequences, FiniteSets, TLC

VARIABLES
    \* ---- FilterSpec: one call of DocumentProcessingService.applyFilter
    originalData,     \* the ImageData handed to applyFilter
    canvasData,       \* what the canvas holds after the call (NoImage before)
    lastFilter,       \* the filter of the last call ("none" before)
    \* ---- OrderSpec: one call of EdgeDetectionService.orderPoints
    points,           \* the 4 corners as handed in
    orderedCorners,   \* the result (<< >> before the call)
    dsize,            \* the size asked of warpPerspective, as squares of lengths
    \* ---- FlowSpec: home page -> edge adjustment -> editor
    route,            \* the router's current page
    cvState,          \* the OpenCV.js script: "absent", "ready" or "broken"
    cvReady,          \* EdgeDetectionService.cvReady
    overlay,          \* the loading overlay on screen ("none" when absent)
    flowImage,        \* the captured image (a data URL)
    detectPc,         \* position of HomePage.detectAndCrop
    detectResult,     \* what detectDocumentEdges resolved to
    edgeDetectionState, \* DocumentProcessingService._edgeDetectionState
    adjustPc,         \* position of EdgeAdjustComponent (load of the image)
    corners,          \* EdgeAdjustComponent.corners
    confirmPc,        \* position of EdgeAdjustComponent.confirm
    croppedImage,     \* what cropAndTransform resolved to
    flowActiveDoc,    \* the active document set by confirm
    \* ---- Spec: DocEditorComponent
    images,           \* the pages of the active document (data URLs)
    editorRoute,      \* "editor" until cancel or save navigates home
    activeDocument,   \* DocumentProcessingService._activeDocument: "none" for null,
                      \* "existing" with an originalDoc, "new" without
    activeFilter,
    loading,
    currentPage,
    totalPages,
    allPreviewData,
    allFullResData,
    originalImageData,
    canvas,           \* the visible canvas (#canvas)
    loadPc,           \* position of loadImage
    pageLoads,        \* loadCurrentPage calls awaiting their image
    rafQueue,         \* callbacks scheduled with requestAnimationFrame
    saves,            \* the running invocations of save()
    library,          \* the library entries this session opened or added
    \* ---- LoadSpec: the size of the canvas loadImageToCanvas makes
    sourceSize,       \* width and height of the decoded image
    loadedCanvas,     \* width and height of the canvas, and the maxWidth given
    \* ---- ImportSpec: HomePage.handleFileSelect with a PDF file
    pdfFile,          \* the pages of the selected file
    importPc,         \* position of handleFileSelect
    allPages,         \* the pages collected by the callback
    importOverlay,    \* the loading overlay ("none" when absent)
    importActiveDoc,  \* the active document set for the editor
    importRoute,
    \* ---- AdjustSpec: the corners of EdgeAdjustComponent under pointer events
    adjustState,      \* the image and detectedCorners the component was opened with
    adjustCanvas,     \* width and height of the canvas
    adjustCorners,    \* this.corners, in units of 1/den canvas pixel
    draggingIndex,    \* 1..4, 0 for null
    imageLoaded,
    confirmedCorners,  \* what confirm handed to cropAndTransform (Null before)
    \* ---- DeleteSpec, UpdateSpec: the library of DocumentProcessingService
    documents,        \* _documents: records [id, name, date, fullImage, thumbnail],
                      \* id standing for the identity of the object
    files,            \* the names of the files in Directory.Data
    nextFile,         \* the next file name: names are numbers, handed out in order
    deletion,         \* the running call of deleteDocument (<< >> when none)
    updates           \* the calls of updateDocument

filterVars == <<originalData, canvasData, lastFilter>>
orderVars  == <<points, orderedCorners, dsize>>
flowVars   == <<route, cvState, cvReady, overlay, flowImage, detectPc, detectResult,
                edgeDetectionState, adjustPc, corners, confirmPc, croppedImage,
                flowActiveDoc>>
editorVars == <<images, editorRoute, activeDocument, activeFilter, loading, currentPage,
                totalPages, allPreviewData, allFullResData, originalImageData, canvas,
                loadPc, pageLoads, rafQueue, saves, library>>
sizeVars   == <<sourceSize, loadedCanvas>>
importVars == <<pdfFile, importPc, allPages, importOverlay, importActiveDoc, importRoute>>
adjustVars == <<adjustState, adjustCanvas, adjustCorners, draggingIndex, imageLoaded,
                confirmedCorners>>
libraryVars == <<documents, files, nextFile, deletion, updates>>
vars == <<filterVars, orderVars, flowVars, editorVars, sizeVars, importVars, adjustVars, libraryVars>>

-----------------------------------------------------------------------------
(* Bounds of the model *)

\* FilterSpec: the largest image handed to applyFilter
MaxWidth == 9
MaxHeight == 1
\* OrderSpec: corner coordinates range over 0..MaxCoord
MaxCoord == 2
\* Spec: pages of a session, overlapping page loads, queued animation frames,
\* filters offered to the user (a prefix of Filters), concurrent save() calls
MaxPages == 2
MaxPageLoads == 2
MaxRaf == 2
NumFilters == 3
MaxSaves == 1
\* SaveSpec: save() is called at most MaxResaves further times while it runs
MaxResaves == 1
\* DeleteSpec, UpdateSpec: documents in the library, calls of updateDocument
MaxDocs == 2
MaxUpdates == 2
\* Image widths and heights go up to 500 * MaxSizeSteps pixels
MaxSizeSteps == 8
\* The pages of an imported PDF file
MaxPdfPages == 3

-----------------------------------------------------------------------------
(* Pixel buffers *)

NoImage == [width |-> 0, height |-> 0, data |-> << >>, q |-> << >>]

Min(a, b) == IF a < b THEN a ELSE b
Max(a, b) == IF a > b THEN a ELSE b

\* num/den (den > 0) rounded to the nearest integer, ties to the even one
RoundHalfEven(num, den) ==
    LET fl == num \div den
        r == num % den
    IN  IF 2 * r < den THEN fl
        ELSE IF 2 * r > den THEN fl + 1
        ELSE IF fl % 2 = 0 THEN fl ELSE fl + 1

\* A store of the number num/den into a Uint8ClampedArray element:
\* clamped to 0..255 and rounded to nearest, ties to even.
ToUint8Clamped(num, den) ==
    IF num <= 0 THEN 0
    ELSE IF num >= 255 * den THEN 255
    ELSE RoundHalfEven(num, den)

\* The colour channels of the pixel that byte k (1-based) of data belongs to
PixelBase(k) == ((k - 1) \div 4) * 4
IsAlpha(k) == (k - 1) % 4 = 3
Red(data, k) == data[PixelBase(k) + 1]
Green(data, k) == data[PixelBase(k) + 2]
Blue(data, k) == data[PixelBase(k) + 3]

-----------------------------------------------------------------------------
(* DocumentProcessingService: the filter bank.                             *)
(* The transforms are written in exact integer arithmetic.  The grayscale  *)
(* average (a sum of three bytes over 3) and the adaptive threshold are    *)
(* exact for every input.  The weighted sums of applyPrintBW, applySepia,  *)
(* applyHighContrast and applyVibrant are IEEE doubles in the code; they   *)
(* equal the exact value unless it lies on a rounding boundary, and no     *)
(* colour of Palette lies on one.                                          *)

\* The filter names, in the order of the union type of applyFilter
Filters ==
    <<"original", "grayscale", "adaptive-threshold", "high-contrast", "invert",
      "sepia", "brightness", "vibrant", "print-bw">>
FilterKinds == {Filters[i] : i \in 1..Len(Filters)}

\* gray = (r + g + b) / 3 stored into data[i], data[i+1], data[i+2]
\* A grayscale weighting the channels by luminance (0.299, 0.587, 0.114)
\* where applyGrayscale takes their plain average
applyGrayscaleLuminance(data) ==
    [k \in 1..Len(data) |->
        IF IsAlpha(k) THEN data[k]
        ELSE ToUint8Clamped(299 * Red(data, k) + 587 * Green(data, k)
                            + 114 * Blue(data, k), 1000)]

applyGrayscale(data) ==
    [k \in 1..Len(data) |->
        IF IsAlpha(k) THEN data[k]
        ELSE ToUint8Clamped(Red(data, k) + Green(data, k) + Blue(data, k), 3)]

\* lut[i] = 255 * (i/255)^1.4 stored into a Uint8Array (truncated)
PrintBWLut ==
    <<
       0, 0, 0, 0, 0, 1, 1, 1, 2, 2, 2, 3, 3, 3, 4, 4,
       5, 5, 6, 6, 7, 7, 8, 8, 9, 9, 10, 10, 11, 12, 12, 13,
       13, 14, 15, 15, 16, 17, 17, 18, 19, 19, 20, 21, 21, 22, 23, 23,
       24, 25, 26, 26, 27, 28, 29, 29, 30, 31, 32, 32, 33, 34, 35, 36,
       36, 37, 38, 39, 40, 40, 41, 42, 43, 44, 45, 45, 46, 47, 48, 49,
       50, 51, 52, 52, 53, 54, 55, 56, 57, 58, 59, 60, 61, 62, 63, 64,
       64, 65, 66, 67, 68, 69, 70, 71, 72, 73, 74, 75, 76, 77, 78, 79,
       80, 81, 82, 83, 84, 85, 86, 87, 88, 89, 90, 91, 92, 93, 95, 96,
       97, 98, 99, 100, 101, 102, 103, 104, 105, 106, 107, 109, 110, 111, 112, 113,
       114, 115, 116, 117, 119, 120, 121, 122, 123, 124, 125, 127, 128, 129, 130, 131,
       132, 133, 135, 136, 137, 138, 139, 140, 142, 143, 144, 145, 146, 148, 149, 150,
       151, 152, 154, 155, 156, 157, 159, 160, 161, 162, 163, 165, 166, 167, 168, 170,
       171, 172, 173, 175, 176, 177, 178, 180, 181, 182, 184, 185, 186, 187, 189, 190,
       191, 193, 194, 195, 196, 198, 199, 200, 202, 203, 204, 206, 207, 208, 210, 211,
       212, 214, 215, 216, 218, 219, 220, 222, 223, 224, 226, 227, 228, 230, 231, 232,
       234, 235, 236, 238, 239, 241, 242, 243, 245, 246, 248, 249, 250, 252, 253, 255
    >>

\* gray = 0.299 r + 0.587 g + 0.114 b; enhanced = lut[floor(gray)]
applyPrintBW(data) ==
    [k \in 1..Len(data) |->
        IF IsAlpha(k) THEN data[k]
        ELSE PrintBWLut[((299 * Red(data, k) + 587 * Green(data, k)
                          + 114 * Blue(data, k)) \div 1000) + 1]]

\* factor = 259 (contrast + 255) / (255 (259 - contrast)) with contrast = 2.2,
\* enhanced = factor (gray - 128) + 128 - 20, with gray = (r + g + b) / 3:
\* as one fraction, (259*2572*(sum - 384) + 108*D) / D with D = 255*2568*3.
applyHighContrast(data) ==
    [k \in 1..Len(data) |->
        IF IsAlpha(k) THEN data[k]
        ELSE LET sum == Red(data, k) + Green(data, k) + Blue(data, k)
                 den == 255 * 2568 * 3
             IN  ToUint8Clamped(259 * 2572 * (sum - 384) + 108 * den, den)]

\* An invert that negates all four bytes of a pixel, where applyInvert
\* leaves the alpha byte alone
applyInvertAllChannels(data) == [k \in 1..Len(data) |-> 255 - data[k]]

applyInvert(data) ==
    [k \in 1..Len(data) |-> IF IsAlpha(k) THEN data[k] ELSE 255 - data[k]]

\* The weights of applySepia in thousandths, for the channel offset 0, 1, 2
SepiaWeights == <<<<393, 769, 189>>, <<349, 686, 168>>, <<272, 534, 131>>>>

applySepia(data) ==
    [k \in 1..Len(data) |->
        IF IsAlpha(k) THEN data[k]
        ELSE LET w == SepiaWeights[((k - 1) % 4) + 1]
             IN  ToUint8Clamped(w[1] * Red(data, k) + w[2] * Green(data, k)
                                + w[3] * Blue(data, k), 1000)]

applyBrightness(data, amount) ==
    [k \in 1..Len(data) |->
        IF IsAlpha(k) THEN data[k] ELSE Min(255, data[k] + amount)]

\* avg + (c - avg) * 1.5 with avg = (r + g + b) / 3 is (9 c - sum) / 6
applyVibrant(data) ==
    [k \in 1..Len(data) |->
        IF IsAlpha(k) THEN data[k]
        ELSE LET r == Red(data, k)
                 g == Green(data, k)
                 b == Blue(data, k)
                 delta == Max(r, Max(g, b)) - Min(r, Min(g, b))
             IN  IF delta > 0 THEN ToUint8Clamped(9 * data[k] - (r + g + b), 6)
                 ELSE data[k]]

\* The constants of applyAdaptiveThreshold
windowSize == 15
halfWindow == windowSize \div 2
ThresholdC == 10

RECURSIVE SumRange(_, _, _)
\* f[lo] + ... + f[hi]
SumRange(f, lo, hi) == IF lo > hi THEN 0 ELSE f[lo] + SumRange(f, lo + 1, hi)

\* The rows wy of the window around row y that pass "wy < 0 || wy >= height",
\* and the same for the columns
\* A window that looks only at the columns right of the pixel, where
\* WindowCols has the pixel's own column in it
WindowColsAhead(x, width) == {wx \in (x + 1)..(x + halfWindow) : wx < width}

WindowRows(y, height) == {wy \in (y - halfWindow)..(y + halfWindow) : ~(wy < 0 \/ wy >= height)}
WindowCols(x, width) == {wx \in (x - halfWindow)..(x + halfWindow) : ~(wx < 0 \/ wx >= width)}

RECURSIVE SumRows(_, _, _, _)
\* The sum of grayValues over the columns cols (an interval) of the rows in rows
SumRows(grayValues, width, rows, cols) ==
    IF rows = {} THEN 0
    ELSE LET wy == CHOOSE r \in rows : \A s \in rows : r <= s
             lo == CHOOSE c \in cols : \A d \in cols : c <= d
             hi == CHOOSE c \in cols : \A d \in cols : c >= d
         IN  SumRange(grayValues, wy * width + lo + 1, wy * width + hi + 1)
             + SumRows(grayValues, width, rows \ {wy}, cols)

\* val of the pixel (x, y): 0 when pixelGray < localMean - C, else 255, with
\* localMean = sum / count over the in-bounds part of the window
\* A threshold that darkens the ink but keeps the gray of the paper, where
\* ThresholdAt turns the paper white
ThresholdAtSoft(grayValues, width, height, x, y) ==
    LET rows == WindowRows(y, height)
        cols == WindowCols(x, width)
        sum == SumRows(grayValues, width, rows, cols)
        count == Cardinality(rows) * Cardinality(cols)
        pixelGray == grayValues[y * width + x + 1]
    IN  IF pixelGray * count < sum - ThresholdC * count THEN 0 ELSE pixelGray

\* A threshold whose mean divides by the whole window's size, where
\* ThresholdAt divides by the number of in-bounds samples
ThresholdAtUnclipped(grayValues, width, height, x, y) ==
    LET rows == WindowRows(y, height)
        cols == WindowCols(x, width)
        sum == SumRows(grayValues, width, rows, cols)
        count == windowSize * windowSize
        pixelGray == grayValues[y * width + x + 1]
    IN  IF pixelGray * count < sum - ThresholdC * count THEN 0 ELSE 255

ThresholdAt(grayValues, width, height, x, y) ==
    LET rows == WindowRows(y, height)
        cols == WindowCols(x, width)
        sum == SumRows(grayValues, width, rows, cols)
        count == Cardinality(rows) * Cardinality(cols)
        pixelGray == grayValues[y * width + x + 1]
    IN  IF pixelGray * count < sum - ThresholdC * count THEN 0 ELSE 255

applyAdaptiveThreshold(data, width, height) ==
    LET grayValues ==
            [p \in 1..(width * height) |->
                ToUint8Clamped(data[4 * p - 3] + data[4 * p - 2] + data[4 * p - 1], 3)]
    IN  [k \in 1..Len(data) |->
            IF IsAlpha(k) \/ (k - 1) \div 4 >= width * height THEN data[k]
            ELSE LET p == (k - 1) \div 4
                 IN  ThresholdAt(grayValues, width, height, p % width, p \div width)]

\* The amount applyFilter passes to applyBrightness
BrightnessAmount == 40

\* workingData after the dispatch of applyFilter on a copy of originalData
FilteredData(filter, original) ==
    CASE filter = "grayscale" -> applyGrayscale(original.data)
      [] filter = "adaptive-threshold" ->
            applyAdaptiveThreshold(original.data, original.width, original.height)
      [] filter = "high-contrast" -> applyHighContrast(original.data)
      [] filter = "invert" -> applyInvert(original.data)
      [] filter = "sepia" -> applySepia(original.data)
      [] filter = "brightness" -> applyBrightness(original.data, BrightnessAmount)
      [] filter = "vibrant" -> applyVibrant(original.data)
      [] filter = "print-bw" -> applyPrintBW(original.data)
      [] OTHER -> original.data

\* ctx.putImageData(img, 0, 0): the canvas keeps its size; the pixels of img
\* that fall inside it replace the canvas's
putImageData(cnv, img) ==
    [cnv EXCEPT
        !.data = [k \in 1..Len(cnv.data) |->
                    LET p == (k - 1) \div 4
                        x == p % cnv.width
                        y == p \div cnv.width
                    IN  IF x < img.width /\ y < img.height
                        THEN img.data[4 * (y * img.width + x) + ((k - 1) % 4) + 1]
                        ELSE cnv.data[k]],
        !.q = IF img.width > 0 /\ img.height > 0 THEN img.q ELSE cnv.q]

\* An applyFilter that leaves the canvas as it is for 'original', where
\* applyFilter puts originalData back
applyFilterNoReset(cnv, filter, original) ==
    IF original = NoImage \/ filter = "original" THEN cnv
    ELSE putImageData(cnv, [original EXCEPT !.data = FilteredData(filter, original)])

\* An applyFilter that transforms what the canvas shows now, where
\* applyFilter transforms a copy of originalData
applyFilterCumulative(cnv, filter, original) ==
    IF original = NoImage THEN cnv
    ELSE IF filter = "original" THEN putImageData(cnv, original)
    ELSE putImageData(cnv, [cnv EXCEPT !.data = FilteredData(filter, cnv)])

\* DocumentProcessingService.applyFilter(canvas, filter, originalData): the
\* canvas afterwards.  Nothing happens without original data; 'original' puts
\* originalData back; every other filter transforms a copy of it.
applyFilter(cnv, filter, original) ==
    IF original = NoImage THEN cnv
    ELSE IF filter = "original" THEN putImageData(cnv, original)
    ELSE putImageData(cnv, [original EXCEPT !.data = FilteredData(filter, original)])

\* The buffer the transforms write: workingData, which the constructor
\* new Uint8ClampedArray(originalData.data) allocates as a copy
transformTargetAliased == "originalData"
transformTarget == "workingData"

\* The bytes of the two buffers when applyFilter returns
buffersAfterApplyFilter(filter, original) ==
    LET allocated == [originalData |-> original.data, workingData |-> original.data]
    IN  IF original = NoImage \/ filter = "original" THEN allocated
        ELSE [allocated EXCEPT ![transformTarget] = FilteredData(filter, original)]

-----------------------------------------------------------------------------
(* The values the variables of the other specifications rest at *)

FilterIdle ==
    /\ originalData = NoImage
    /\ canvasData = NoImage
    /\ lastFilter = "none"

OrderIdle ==
    /\ points = << >>
    /\ orderedCorners = << >>
    /\ dsize = << >>

FlowIdle ==
    /\ route = "home"
    /\ cvState = "absent"
    /\ cvReady = FALSE
    /\ overlay = "none"
    /\ flowImage = NoImage
    /\ detectPc = "idle"
    /\ detectResult = << >>
    /\ edgeDetectionState = << >>
    /\ adjustPc = "idle"
    /\ corners = << >>
    /\ confirmPc = "idle"
    /\ croppedImage = NoImage
    /\ flowActiveDoc = << >>

SizeIdle ==
    /\ sourceSize = << >>
    /\ loadedCanvas = << >>

LibraryIdle ==
    /\ documents = << >>
    /\ files = {}
    /\ nextFile = 0
    /\ deletion = << >>
    /\ updates = << >>

AdjustIdle ==
    /\ adjustState = << >>
    /\ adjustCanvas = << >>
    /\ adjustCorners = << >>
    /\ draggingIndex = 0
    /\ imageLoaded = FALSE
    /\ confirmedCorners = << >>

ImportIdle ==
    /\ pdfFile = << >>
    /\ importPc = "idle"
    /\ allPages = << >>
    /\ importOverlay = "none"
    /\ importActiveDoc = << >>
    /\ importRoute = "home"

EditorIdle ==
    /\ images = << >>
    /\ editorRoute = "home"
    /\ activeDocument = "none"
    /\ activeFilter = "original"
    /\ loading = FALSE
    /\ currentPage = 0
    /\ totalPages = 0
    /\ allPreviewData = << >>
    /\ allFullResData = << >>
    /\ originalImageData = NoImage
    /\ canvas = NoImage
    /\ loadPc = "idle"
    /\ pageLoads = << >>
    /\ rafQueue = << >>
    /\ saves = << >>
    /\ library = << >>

-----------------------------------------------------------------------------
(* FilterSpec: applyFilter on pixel buffers *)

\* The colours (R, G, B, A) the images are painted with
Palette ==
    <<<<0, 0, 0, 255>>, <<255, 255, 255, 255>>, <<200, 30, 60, 255>>,
      <<10, 120, 7, 128>>, <<90, 90, 200, 0>>>>

\* The pixel data of a width x height image of colour bg with one pixel,
\* the inkAt-th (1-based, row by row), of colour ink
PaintedData(width, height, bg, ink, inkAt) ==
    [k \in 1..(width * height * 4) |->
        IF (k - 1) \div 4 = inkAt - 1 THEN ink[((k - 1) % 4) + 1]
        ELSE bg[((k - 1) % 4) + 1]]

PaintedImage(width, height, bg, ink, inkAt) ==
    [width |-> width, height |-> height,
     data |-> PaintedData(width, height, bg, ink, inkAt), q |-> << >>]

\* The canvas holds the image, as after loadImageToCanvas
FilterInit ==
    /\ \E width \in 1..MaxWidth, height \in 1..MaxHeight :
         \E b \in 1..Len(Palette), i \in 1..Len(Palette), inkAt \in 1..(width * height) :
            originalData = PaintedImage(width, height, Palette[b], Palette[i], inkAt)
    /\ canvasData = originalData
    /\ lastFilter = "none"
    /\ OrderIdle /\ FlowIdle /\ EditorIdle /\ SizeIdle /\ ImportIdle /\ AdjustIdle /\ LibraryIdle

\* docService.applyFilter(canvas, filter, originalData)
Service_applyFilter ==
    /\ \E filter \in FilterKinds :
         /\ canvasData' = applyFilter(canvasData, filter, originalData)
         /\ originalData' =
                [originalData EXCEPT
                    !.data = buffersAfterApplyFilter(filter, originalData).originalData]
         /\ lastFilter' = filter
    /\ UNCHANGED <<orderVars, flowVars, editorVars, sizeVars, importVars, adjustVars, libraryVars>>

FilterNext == Service_applyFilter

FilterSpec == FilterInit /\ [][FilterNext]_vars

\* The colour bytes (not alpha) of a pixel buffer
ColourBytes(data) == {k \in 1..Len(data) : ~IsAlpha(k)}

\* C9: every R, G and B value of the adaptive-threshold output is exactly 0
\* or 255, for every input image.
AdaptiveThresholdIsBinary ==
    lastFilter = "adaptive-threshold" =>
        /\ Len(canvasData.data) = originalData.width * originalData.height * 4
        /\ \A k \in ColourBytes(canvasData.data) : canvasData.data[k] \in {0, 255}

\* An image wider than half the window, thresholded to black ink on white
AdaptiveThresholdBothValues ==
    /\ lastFilter = "adaptive-threshold"
    /\ originalData.width > halfWindow + 1
    /\ \E k \in ColourBytes(canvasData.data) : canvasData.data[k] = 0
    /\ \E k \in ColourBytes(canvasData.data) : canvasData.data[k] = 255
    /\ \E k \in ColourBytes(originalData.data) : originalData.data[k] \notin {0, 255}

\* C10: the grayscale filter outputs R = G = B for every pixel, each at most 1
\* away from floor((R0 + G0 + B0) / 3) of the source pixel.
GrayscaleIsChannelAverage ==
    lastFilter = "grayscale" =>
        /\ Len(canvasData.data) = Len(originalData.data)
        /\ \A k \in ColourBytes(canvasData.data) :
             LET floorAvg == (Red(originalData.data, k) + Green(originalData.data, k)
                              + Blue(originalData.data, k)) \div 3
             IN  /\ canvasData.data[k] = Red(canvasData.data, k)
                 /\ canvasData.data[k] - floorAvg \in {-1, 0, 1}

\* A coloured pixel whose average is rounded up, away from the floor
GrayscaleRoundsUp ==
    /\ lastFilter = "grayscale"
    /\ \E k \in ColourBytes(canvasData.data) :
         /\ Red(originalData.data, k) # Green(originalData.data, k)
         /\ canvasData.data[k] = 1 + (Red(originalData.data, k) + Green(originalData.data, k)
                                      + Blue(originalData.data, k)) \div 3

\* C11: applyFilter with the 'original' filter renders pixel data
\* byte-identical to the original buffer: same width, same height and the
\* same value for every RGBA byte.
OriginalFilterRestoresOriginal ==
    lastFilter = "original" =>
        /\ canvasData.width = originalData.width
        /\ canvasData.height = originalData.height
        /\ Len(canvasData.data) = Len(originalData.data)
        /\ \A k \in 1..Len(originalData.data) : canvasData.data[k] = originalData.data[k]

\* 'original' was applied to an image that the colour filters would change
OriginalShownForColouredImage ==
    /\ lastFilter = "original"
    /\ canvasData.data = originalData.data
    /\ applyGrayscale(originalData.data) # originalData.data
    /\ originalData.width > 1

\* C12: applyFilter never modifies the original buffer it is given: for every
\* filter kind the bytes of originalData after the call equal its bytes
\* before the call.
OriginalBufferUntouched == [][originalData' = originalData]_vars

\* A filter has changed what the canvas shows and originalData differs from it
FilteredCanvasDiffersFromOriginal ==
    /\ lastFilter = "sepia"
    /\ canvasData.data # originalData.data
    /\ canvasData.data = applySepia(originalData.data)

\* C13: for every filter kind and every pixel, the alpha byte of the output
\* equals the alpha byte of the input.
AlphaPassesThrough ==
    lastFilter # "none" =>
        \A k \in 1..Len(canvasData.data) :
            IsAlpha(k) => canvasData.data[k] = originalData.data[k]

\* A translucent pixel inverted: its colour changed, its alpha did not
TranslucentPixelInverted ==
    /\ lastFilter = "invert"
    /\ \E k \in 1..Len(canvasData.data) :
         /\ IsAlpha(k)
         /\ originalData.data[k] = 128
         /\ canvasData.data[k] = 128
         /\ canvasData.data[k - 1] = 255 - originalData.data[k - 1]

\* C20: filter application is total: for every filter kind and every
\* well-formed image of width >= 1 and height >= 1 applyFilter completes with
\* a well-formed buffer, and the adaptive-threshold window of every pixel
\* holds at least one in-bounds sample, so the local mean never divides by 0.
FilterApplicationIsTotal ==
    /\ \A x \in 0..(originalData.width - 1), y \in 0..(originalData.height - 1) :
         Cardinality(WindowRows(y, originalData.height))
            * Cardinality(WindowCols(x, originalData.width)) >= 1
    /\ lastFilter # "none" =>
         /\ lastFilter \in FilterKinds
         /\ canvasData.width = originalData.width
         /\ canvasData.height = originalData.height
         /\ Len(canvasData.data) = originalData.width * originalData.height * 4
         /\ \A k \in 1..Len(canvasData.data) : canvasData.data[k] \in 0..255

\* The smallest image thresholded: the window of its pixel is the pixel
SinglePixelThresholded ==
    /\ lastFilter = "adaptive-threshold"
    /\ originalData.width = 1 /\ originalData.height = 1
    /\ Cardinality(WindowCols(0, 1)) = 1
    /\ canvasData.data[1] = 255

\* The gray value of pixel p (0-based) of a buffer: the channel average, as
\* stored in a byte
GrayAt(data, p) ==
    ToUint8Clamped(data[4 * p + 1] + data[4 * p + 2] + data[4 * p + 3], 3)

\* The pixels of a width x height image no further than 7 columns and 7 rows
\* from (x, y): the in-bounds part of the 15 x 15 window centred on it
InBoundsWindow(x, y, width, height) ==
    {q \in (0..(width - 1)) \X (0..(height - 1)) :
        /\ q[1] - x \in -7..7
        /\ q[2] - y \in -7..7}

RECURSIVE GraySum(_, _, _)
\* The sum of the gray values of the pixels in positions
GraySum(data, width, positions) ==
    IF positions = {} THEN 0
    ELSE LET q == CHOOSE r \in positions : TRUE
         IN  GrayAt(data, q[2] * width + q[1]) + GraySum(data, width, positions \ {q})

\* C21: for every pixel (x, y) the adaptive-threshold output is 0 exactly
\* when gray[x, y] < localMean - 10 and 255 otherwise, localMean being the
\* sum of gray over the in-bounds pixels of the 15 x 15 window centred on
\* (x, y) divided by the number of those pixels (gray < sum / count - 10 is
\* written gray * count < sum - 10 * count).
AdaptiveThresholdFollowsLocalMean ==
    lastFilter = "adaptive-threshold" =>
        \A x \in 0..(originalData.width - 1), y \in 0..(originalData.height - 1) :
            LET window == InBoundsWindow(x, y, originalData.width, originalData.height)
                count == Cardinality(window)
                sum == GraySum(originalData.data, originalData.width, window)
                gray == GrayAt(originalData.data, y * originalData.width + x)
                val == IF gray * count < sum - 10 * count THEN 0 ELSE 255
                idx == (y * originalData.width + x) * 4
            IN  \A c \in 1..3 : canvasData.data[idx + c] = val

\* An image wider than the window reaches: the window of its first pixel is
\* clipped to fewer pixels than the image has, and the pixel, darker than
\* its local mean by more than 10, came out black next to white ones
ClippedWindowDecidesPixel ==
    /\ lastFilter = "adaptive-threshold"
    /\ Cardinality(InBoundsWindow(0, 0, originalData.width, originalData.height))
          < originalData.width * originalData.height
    /\ GrayAt(originalData.data, 0) > 0
    /\ canvasData.data[1] = 0
    /\ canvasData.data[5] = 255

-----------------------------------------------------------------------------
(* EdgeDetectionService.orderPoints *)

RECURSIVE InsertSorted(_, _, _)
\* p placed into the sequence sorted (ascending in field key) behind every
\* element that does not compare greater: Array.prototype.sort is stable.
InsertSorted(sorted, p, key) ==
    IF sorted = << >> THEN <<p>>
    ELSE IF sorted[Len(sorted)][key] <= p[key] THEN Append(sorted, p)
    ELSE Append(InsertSorted(SubSeq(sorted, 1, Len(sorted) - 1), p, key),
                sorted[Len(sorted)])

RECURSIVE SortedBy(_, _)
\* pts.slice().sort((a, b) => a[key] - b[key])
SortedBy(pts, key) ==
    IF pts = << >> THEN << >>
    ELSE InsertSorted(SortedBy(SubSeq(pts, 1, Len(pts) - 1), key), pts[Len(pts)], key)

\* top-left, top-right, bottom-right, bottom-left
orderPoints(pts) ==
    LET sorted == SortedBy(pts, "y")
        top == SortedBy(SubSeq(sorted, 1, 2), "x")
        bottom == SortedBy(SubSeq(sorted, 3, 4), "x")
    IN  <<top[1], top[2], bottom[2], bottom[1]>>

\* The lengths perspectiveTransform computes are square roots,
\* Math.sqrt(Math.pow(dx, 2) + Math.pow(dy, 2)); a length is held here as the
\* number under the root, its square, which is an exact integer and orders
\* as the lengths do, so that Math.max of two lengths is Max of the squares.
DistanceSquared(a, b) == (a.x - b.x) * (a.x - b.x) + (a.y - b.y) * (a.y - b.y)

widthA(oc) == DistanceSquared(oc[3], oc[4])
widthB(oc) == DistanceSquared(oc[2], oc[1])
heightA(oc) == DistanceSquared(oc[2], oc[3])
heightB(oc) == DistanceSquared(oc[1], oc[4])

\* An output as wide as the top edge, where warpMaxWidth takes the longer
\* of the top and the bottom edge
warpMaxWidthOfTopEdge(oc) == widthB(oc)

\* maxWidth and maxHeight of perspectiveTransform
warpMaxWidth(oc) == Max(widthA(oc), widthB(oc))
warpMaxHeight(oc) == Max(heightA(oc), heightB(oc))

-----------------------------------------------------------------------------
(* OrderSpec: orderPoints and the output size of perspectiveTransform on   *)
(* lists of 4 distinct points                                              *)

GridPoints == [x : 0..MaxCoord, y : 0..MaxCoord]

\* The corners of a page photographed straight on, in pixels of the image
PageRectangle ==
    <<[x |-> 100, y |-> 100], [x |-> 900, y |-> 100],
      [x |-> 900, y |-> 1300], [x |-> 100, y |-> 1300]>>

\* The corner lists perspectiveTransform is called with: 4 distinct points
\* of the grid, or the corners of PageRectangle, in any order
CornerLists ==
    {pts \in [1..4 -> GridPoints] : \A i, j \in 1..4 : i # j => pts[i] # pts[j]}
        \cup {[i \in 1..4 |-> PageRectangle[perm[i]]] : perm \in Permutations(1..4)}

OrderInit ==
    /\ points \in CornerLists
    /\ orderedCorners = << >>
    /\ dsize = << >>
    /\ FilterIdle /\ FlowIdle /\ EditorIdle /\ SizeIdle /\ ImportIdle /\ AdjustIdle /\ LibraryIdle

\* img.onload of perspectiveTransform, up to the size of the output:
\* const orderedCorners = this.orderPoints(corners), then maxWidth and
\* maxHeight, which dsize = new cv.Size(maxWidth, maxHeight) carries
Edge_orderPoints ==
    /\ orderedCorners' = orderPoints(points)
    /\ dsize' = [width |-> warpMaxWidth(orderPoints(points)),
                 height |-> warpMaxHeight(orderPoints(points))]
    /\ UNCHANGED <<points, filterVars, flowVars, editorVars, sizeVars, importVars, adjustVars, libraryVars>>

OrderNext == Edge_orderPoints

OrderSpec == OrderInit /\ [][OrderNext]_vars

\* The list pts reordered by the permutation perm of 1..4
Permuted(pts, perm) == [i \in 1..4 |-> pts[perm[i]]]

\* C6: orderPoints returns the same ordered sequence for all 24 permutations
\* of the input order, including inputs where several points share a y or an
\* x coordinate.
OrderPointsIgnoresInputOrder ==
    orderedCorners # << >> =>
        \A perm \in Permutations(1..4) :
            orderPoints(Permuted(points, perm)) = orderedCorners

\* The z component of (a - o) x (b - o): positive when o -> a -> b turns
\* clockwise on the screen, where y grows downwards
Cross(o, a, b) == (a.x - o.x) * (b.y - o.y) - (a.y - o.y) * (b.x - o.x)

\* walk goes round the boundary of a convex quadrilateral clockwise: every
\* turn at a vertex is a clockwise turn, so that two consecutive points are
\* the ends of an edge, and walk[1], walk[3] and walk[2], walk[4] those of
\* the diagonals
ClockwiseWalk(walk) ==
    \A i \in 1..4 :
        Cross(walk[i], walk[(i % 4) + 1], walk[((i + 1) % 4) + 1]) > 0

\* The 4 points are the vertices of a convex quadrilateral
ConvexQuadrilateral(pts) ==
    \E perm \in Permutations(1..4) : ClockwiseWalk(Permuted(pts, perm))

\* C22: for any 4 distinct points that are the vertices of a convex
\* quadrilateral, orderPoints returns a permutation of them that walks the
\* boundary clockwise (in image coordinates): consecutive returned points are
\* adjacent vertices, never the two ends of a diagonal.  (Which vertex the
\* walk starts at is left open here.)
OrderPointsWalksBoundaryClockwise ==
    (orderedCorners # << >> /\ ConvexQuadrilateral(points)) =>
        /\ \E perm \in Permutations(1..4) : orderedCorners = Permuted(points, perm)
        /\ ClockwiseWalk(orderedCorners)

\* The 4 points are the corners of an axis-aligned rectangle
AxisAlignedRectangle(pts) ==
    LET xs == {pts[i].x : i \in 1..4}
        ys == {pts[i].y : i \in 1..4}
    IN  /\ Cardinality(xs) = 2 /\ Cardinality(ys) = 2
        /\ {pts[i] : i \in 1..4} = [x : xs, y : ys]

\* C23: the rectified output width is max(distance(bottom-left, bottom-right),
\* distance(top-left, top-right)) and the height is max(distance(top-right,
\* bottom-right), distance(top-left, bottom-left)) of the ordered corners; for
\* an axis-aligned rectangle (x0,y0), (x1,y0), (x1,y1), (x0,y1) given in any
\* order the size is exactly (x1 - x0) by (y1 - y0), 800 by 1200 for
\* PageRectangle.  (Lengths are compared by their squares.)
OutputSizeIsLongerEdge ==
    orderedCorners # << >> =>
        LET topLeft == orderedCorners[1]
            topRight == orderedCorners[2]
            bottomRight == orderedCorners[3]
            bottomLeft == orderedCorners[4]
            x0 == CHOOSE x \in {points[i].x : i \in 1..4} : \A i \in 1..4 : x <= points[i].x
            x1 == CHOOSE x \in {points[i].x : i \in 1..4} : \A i \in 1..4 : x >= points[i].x
            y0 == CHOOSE y \in {points[i].y : i \in 1..4} : \A i \in 1..4 : y <= points[i].y
            y1 == CHOOSE y \in {points[i].y : i \in 1..4} : \A i \in 1..4 : y >= points[i].y
        IN  /\ dsize.width = Max(DistanceSquared(bottomLeft, bottomRight),
                                 DistanceSquared(topLeft, topRight))
            /\ dsize.height = Max(DistanceSquared(topRight, bottomRight),
                                  DistanceSquared(topLeft, bottomLeft))
            /\ AxisAlignedRectangle(points) =>
                    /\ dsize.width = (x1 - x0) * (x1 - x0)
                    /\ dsize.height = (y1 - y0) * (y1 - y0)
            /\ {points[i] : i \in 1..4} = {PageRectangle[i] : i \in 1..4} =>
                    dsize = [width |-> 800 * 800, height |-> 1200 * 1200]

\* The corners of PageRectangle handed in bottom-right first and top-left
\* last, rectified to 800 by 1200
ShuffledPageRectangleRectified ==
    /\ points[1] = PageRectangle[3]
    /\ points[4] = PageRectangle[1]
    /\ orderedCorners = PageRectangle
    /\ dsize = [width |-> 640000, height |-> 1440000]

-----------------------------------------------------------------------------
(* FlowSpec: HomePage.detectAndCrop, EdgeAdjustComponent, confirm.         *)
(* Corner coordinates in the corner-adjustment step are exact rationals:   *)
(* with scale = num/den, a stored number n is the canvas coordinate n/den  *)
(* and, divided by scale in confirm, the image coordinate n/num.           *)

Null == << >>

\* Two quadrilaterals, a triangle and a pentagon inside a w x h image, as
\* approxPolyDP returns polygons (data32S integers)
InsetQuad(w, h) ==
    <<[x |-> w \div 8, y |-> h \div 8], [x |-> w - w \div 8, y |-> h \div 8],
      [x |-> w - w \div 8, y |-> h - h \div 8], [x |-> w \div 8, y |-> h - h \div 8]>>
DiamondQuad(w, h) ==
    <<[x |-> w \div 2, y |-> h \div 16], [x |-> w - w \div 16, y |-> h \div 2],
      [x |-> w \div 2, y |-> h - h \div 16], [x |-> w \div 16, y |-> h \div 2]>>
Triangle(w, h) ==
    <<[x |-> w \div 2, y |-> h \div 8], [x |-> w - w \div 8, y |-> h - h \div 8],
      [x |-> w \div 8, y |-> h - h \div 8]>>
Pentagon(w, h) == Triangle(w, h) \o <<[x |-> w \div 8, y |-> h \div 2],
                                      [x |-> w \div 4, y |-> h \div 8]>>

\* What a photograph may show: the contours findContours returns for it,
\* each with its contourArea and the polygon approxPolyDP makes of it
Scenes(w, h) ==
    [blank |-> << >>,
     stroke |-> <<[area |-> 0, approx |-> InsetQuad(w, h)]>>,
     page |-> <<[area |-> 3, approx |-> InsetQuad(w, h)]>>,
     tilted |-> <<[area |-> 2, approx |-> DiamondQuad(w, h)]>>,
     triangle |-> <<[area |-> 2, approx |-> Triangle(w, h)]>>,
     pentagon |-> <<[area |-> 2, approx |-> Pentagon(w, h)]>>,
     pageInBlob |-> <<[area |-> 1, approx |-> InsetQuad(w, h)],
                      [area |-> 3, approx |-> Pentagon(w, h)]>>,
     blobInPage |-> <<[area |-> 1, approx |-> Pentagon(w, h)],
                      [area |-> 3, approx |-> DiamondQuad(w, h)],
                      [area |-> 3, approx |-> Triangle(w, h)]>>]

\* The captured images: portrait and landscape photographs of each scene,
\* and a file that is no image
FlowImages ==
    {[name |-> scene, width |-> size[1], height |-> size[2], decodable |-> TRUE,
      contours |-> Scenes(size[1], size[2])[scene]] :
        scene \in DOMAIN Scenes(1, 1), size \in {<<640, 800>>, <<640, 480>>}}
    \cup {[name |-> "broken", width |-> 0, height |-> 0, decodable |-> FALSE,
           contours |-> << >>]}

\* The browser window
Window == [innerWidth |-> 400, innerHeight |-> 850]

RECURSIVE ScanContours(_, _, _, _)
\* The loop that looks for the contour of the largest area: maxContourIndex
\* (1-based; 0 for the code's -1) after the contours from i on
ScanContours(contours, i, maxArea, maxContourIndex) ==
    IF i > Len(contours) THEN maxContourIndex
    ELSE IF contours[i].area > maxArea
         THEN ScanContours(contours, i + 1, contours[i].area, i)
         ELSE ScanContours(contours, i + 1, maxArea, maxContourIndex)

\* A detection that takes the approximation of the largest contour
\* whatever its number of vertices
detectedQuadAnyPolygon(img) ==
    LET maxContourIndex == ScanContours(img.contours, 1, 0, 0)
    IN  IF maxContourIndex >= 1 THEN img.contours[maxContourIndex].approx ELSE Null

\* The corners img.onload of detectDocumentEdges resolves with
detectedQuad(img) ==
    LET maxContourIndex == ScanContours(img.contours, 1, 0, 0)
    IN  IF maxContourIndex >= 1
        THEN LET approx == img.contours[maxContourIndex].approx
             IN  IF Len(approx) = 4 THEN [i \in 1..4 |-> approx[i]] ELSE Null
        ELSE Null

\* Math.min(scaleX, scaleY, 0.85) as the fraction <<num, den>>
MinFraction(a, b) == IF a[1] * b[2] <= b[1] * a[2] THEN a ELSE b
ScaleOf(img) ==
    MinFraction(MinFraction(<<Window.innerWidth - 80, img.width>>,
                            <<Window.innerHeight - 350, img.height>>),
                <<85, 100>>)

\* canvas.width = img.width * scale (a canvas size is a whole number)
CanvasSize(img) ==
    LET s == ScaleOf(img)
    IN  [width |-> (img.width * s[1]) \div s[2], height |-> (img.height * s[1]) \div s[2]]

\* Corners taken from the detection whatever their number, where
\* InitialCorners takes a list of 4 and else the default corners
InitialCornersAnyLength(img, detectedCorners) ==
    LET s == ScaleOf(img)
    IN  IF detectedCorners # Null
        THEN [i \in 1..Len(detectedCorners) |-> [x |-> detectedCorners[i].x * s[1],
                                                 y |-> detectedCorners[i].y * s[1]]]
        ELSE << >>

\* The corners loadImage sets, in units of 1/den canvas pixel
InitialCorners(img, detectedCorners) ==
    LET s == ScaleOf(img)
        cnv == CanvasSize(img)
        padding == 30 * s[2]
    IN  IF detectedCorners # Null /\ Len(detectedCorners) = 4
        THEN [i \in 1..4 |-> [x |-> detectedCorners[i].x * s[1],
                              y |-> detectedCorners[i].y * s[1]]]
        ELSE <<[x |-> padding, y |-> padding],
               [x |-> cnv.width * s[2] - padding, y |-> padding],
               [x |-> cnv.width * s[2] - padding, y |-> cnv.height * s[2] - padding],
               [x |-> padding, y |-> cnv.height * s[2] - padding]>>

\* What perspectiveTransform resolves to when the warp succeeds: the source
\* warped from the ordered corners (in units of 1/num image pixel)
Rectified(img, originalCorners) ==
    [rectified |-> TRUE, source |-> img, quad |-> orderPoints(originalCorners)]

FlowInit ==
    /\ route = "home"
    /\ cvState \in {"ready", "absent"}
    /\ cvReady = (cvState = "ready")
    /\ overlay = "none"
    /\ flowImage = NoImage
    /\ detectPc = "idle"
    /\ detectResult = Null
    /\ edgeDetectionState = Null
    /\ adjustPc = "idle"
    /\ corners = << >>
    /\ confirmPc = "idle"
    /\ croppedImage = Null
    /\ flowActiveDoc = Null
    /\ FilterIdle /\ OrderIdle /\ EditorIdle /\ SizeIdle /\ ImportIdle /\ AdjustIdle /\ LibraryIdle

\* EdgeDetectionService's constructor called loadOpenCV(): its script loads
\* and OpenCV initialises
Cv_constructorLoadResolves ==
    /\ cvState = "absent"
    /\ cvState' = "ready"
    /\ cvReady' = TRUE
    /\ UNCHANGED <<route, overlay, flowImage, detectPc, detectResult, edgeDetectionState,
                   adjustPc, corners, confirmPc, croppedImage, flowActiveDoc>>
    /\ UNCHANGED <<filterVars, orderVars, editorVars, sizeVars, importVars, adjustVars, libraryVars>>

\* ... or the script fails to load, or OpenCV does not initialise in 10 s
Cv_constructorLoadRejects ==
    /\ cvState = "absent"
    /\ cvState' = "broken"
    /\ UNCHANGED <<route, cvReady, overlay, flowImage, detectPc, detectResult,
                   edgeDetectionState, adjustPc, corners, confirmPc, croppedImage,
                   flowActiveDoc>>
    /\ UNCHANGED <<filterVars, orderVars, editorVars, sizeVars, importVars, adjustVars, libraryVars>>

\* detectAndCrop(imageData) up to the call of detectDocumentEdges, which
\* awaits loadOpenCV() unless cvReady
Home_detectAndCrop ==
    /\ route = "home" /\ detectPc = "idle" /\ overlay = "none"
    /\ \E img \in FlowImages : flowImage' = img
    /\ overlay' = "Detecting document edges..."
    /\ detectPc' = IF cvReady THEN "image" ELSE "cv"
    /\ detectResult' = Null
    /\ UNCHANGED <<route, cvState, cvReady, edgeDetectionState, adjustPc, corners,
                   confirmPc, croppedImage, flowActiveDoc>>
    /\ UNCHANGED <<filterVars, orderVars, editorVars, sizeVars, importVars, adjustVars, libraryVars>>

\* loadOpenCV() resolves inside detectDocumentEdges
Detect_loadOpenCVResolves ==
    /\ detectPc = "cv"
    /\ cvState' = "ready"
    /\ cvReady' = TRUE
    /\ detectPc' = "image"
    /\ UNCHANGED <<route, overlay, flowImage, detectResult, edgeDetectionState, adjustPc,
                   corners, confirmPc, croppedImage, flowActiveDoc>>
    /\ UNCHANGED <<filterVars, orderVars, editorVars, sizeVars, importVars, adjustVars, libraryVars>>

\* loadOpenCV() rejects: detectDocumentEdges rejects, and detectAndCrop,
\* which has no handler, ends at its await
Detect_loadOpenCVRejects ==
    /\ detectPc = "cv"
    /\ cvState # "ready"
    /\ cvState' = "broken"
    /\ detectPc' = "rejected"
    /\ UNCHANGED <<route, cvReady, overlay, flowImage, detectResult, edgeDetectionState,
                   adjustPc, corners, confirmPc, croppedImage, flowActiveDoc>>
    /\ UNCHANGED <<filterVars, orderVars, editorVars, sizeVars, importVars, adjustVars, libraryVars>>

\* img.onerror of detectDocumentEdges: resolve(null)
Detect_imageError ==
    /\ detectPc = "image"
    /\ ~flowImage.decodable
    /\ detectResult' = Null
    /\ detectPc' = "resolved"
    /\ UNCHANGED <<route, cvState, cvReady, overlay, flowImage, edgeDetectionState,
                   adjustPc, corners, confirmPc, croppedImage, flowActiveDoc>>
    /\ UNCHANGED <<filterVars, orderVars, editorVars, sizeVars, importVars, adjustVars, libraryVars>>

\* img.onload of detectDocumentEdges: the OpenCV pipeline runs on the image
Detect_imageLoaded ==
    /\ detectPc = "image"
    /\ flowImage.decodable
    /\ detectResult' = detectedQuad(flowImage)
    /\ detectPc' = "resolved"
    /\ UNCHANGED <<route, cvState, cvReady, overlay, flowImage, edgeDetectionState,
                   adjustPc, corners, confirmPc, croppedImage, flowActiveDoc>>
    /\ UNCHANGED <<filterVars, orderVars, editorVars, sizeVars, importVars, adjustVars, libraryVars>>

\* An OpenCV call throws inside img.onload: the handler runs after the
\* try/catch of the promise executor has returned, so nothing resolves
Detect_pipelineThrows ==
    /\ detectPc = "image"
    /\ flowImage.decodable
    /\ detectPc' = "threw"
    /\ UNCHANGED <<route, cvState, cvReady, overlay, flowImage, detectResult,
                   edgeDetectionState, adjustPc, corners, confirmPc, croppedImage,
                   flowActiveDoc>>
    /\ UNCHANGED <<filterVars, orderVars, editorVars, sizeVars, importVars, adjustVars, libraryVars>>

\* detectAndCrop after its awaits: dismiss, setEdgeDetectionState, navigate;
\* the corner-adjustment component starts and schedules its loadImage
Detect_finish ==
    /\ detectPc = "resolved"
    /\ overlay' = "none"
    /\ edgeDetectionState' = [imageData |-> flowImage, detectedCorners |-> detectResult]
    /\ route' = "edge-adjust"
    /\ detectPc' = "idle"
    /\ adjustPc' = "loading"
    /\ corners' = << >>
    /\ UNCHANGED <<cvState, cvReady, flowImage, detectResult, confirmPc, croppedImage,
                   flowActiveDoc>>
    /\ UNCHANGED <<filterVars, orderVars, editorVars, sizeVars, importVars, adjustVars, libraryVars>>

\* EdgeAdjustComponent.loadImage, img.onload
Adjust_imageLoaded ==
    /\ route = "edge-adjust" /\ adjustPc = "loading"
    /\ edgeDetectionState # Null
    /\ edgeDetectionState.imageData.decodable
    /\ corners' = InitialCorners(edgeDetectionState.imageData,
                                 edgeDetectionState.detectedCorners)
    /\ adjustPc' = "loaded"
    /\ UNCHANGED <<route, cvState, cvReady, overlay, flowImage, detectPc, detectResult,
                   edgeDetectionState, confirmPc, croppedImage, flowActiveDoc>>
    /\ UNCHANGED <<filterVars, orderVars, editorVars, sizeVars, importVars, adjustVars, libraryVars>>

\* EdgeAdjustComponent.loadImage, img.onerror: cancel()
Adjust_imageError ==
    /\ route = "edge-adjust" /\ adjustPc = "loading"
    /\ confirmPc = "idle"
    /\ edgeDetectionState # Null
    /\ ~edgeDetectionState.imageData.decodable
    /\ edgeDetectionState' = Null
    /\ route' = "home"
    /\ adjustPc' = "idle"
    /\ UNCHANGED <<cvState, cvReady, overlay, flowImage, detectPc, detectResult, corners,
                   confirmPc, croppedImage, flowActiveDoc>>
    /\ UNCHANGED <<filterVars, orderVars, editorVars, sizeVars, importVars, adjustVars, libraryVars>>

\* EdgeAdjustComponent.cancel()
Adjust_cancel ==
    /\ route = "edge-adjust" /\ confirmPc = "idle" /\ overlay = "none"
    /\ edgeDetectionState' = Null
    /\ route' = "home"
    /\ adjustPc' = "idle"
    /\ UNCHANGED <<cvState, cvReady, overlay, flowImage, detectPc, detectResult, corners,
                   confirmPc, croppedImage, flowActiveDoc>>
    /\ UNCHANGED <<filterVars, orderVars, editorVars, sizeVars, importVars, adjustVars, libraryVars>>

\* A perspectiveTransform that does not look at the number of corners
perspectiveTransformEntryUnchecked(cornerList) == "image"

\* perspectiveTransform once OpenCV is ready: it returns null for a corner
\* list that has not 4 points, and else goes on to decode the image
perspectiveTransformEntry(cornerList) ==
    IF Len(cornerList) # 4 THEN "resolved" ELSE "image"

\* confirm() up to the first await inside perspectiveTransform
Adjust_confirm ==
    /\ route = "edge-adjust" /\ confirmPc = "idle" /\ overlay = "none"
    /\ overlay' = "Straightening document..."
    /\ croppedImage' = Null
    /\ confirmPc' = IF ~cvReady THEN "cv" ELSE perspectiveTransformEntry(corners)
    /\ UNCHANGED <<route, cvState, cvReady, flowImage, detectPc, detectResult,
                   edgeDetectionState, adjustPc, corners, flowActiveDoc>>
    /\ UNCHANGED <<filterVars, orderVars, editorVars, sizeVars, importVars, adjustVars, libraryVars>>

\* img.onload of perspectiveTransform: the warp succeeds.  (img.onerror
\* resolves null; the image of this step has decoded before.)
Confirm_warped ==
    /\ confirmPc = "image"
    /\ croppedImage' = IF edgeDetectionState.imageData.decodable
                       THEN Rectified(edgeDetectionState.imageData, corners)
                       ELSE Null
    /\ confirmPc' = "resolved"
    /\ UNCHANGED <<route, cvState, cvReady, overlay, flowImage, detectPc, detectResult,
                   edgeDetectionState, adjustPc, corners, flowActiveDoc>>
    /\ UNCHANGED <<filterVars, orderVars, editorVars, sizeVars, importVars, adjustVars, libraryVars>>

\* An OpenCV call throws inside img.onload of perspectiveTransform: nothing
\* resolves the promise confirm awaits
Confirm_warpThrows ==
    /\ confirmPc = "image"
    /\ edgeDetectionState.imageData.decodable
    /\ confirmPc' = "threw"
    /\ UNCHANGED <<route, cvState, cvReady, overlay, flowImage, detectPc, detectResult,
                   edgeDetectionState, adjustPc, corners, croppedImage, flowActiveDoc>>
    /\ UNCHANGED <<filterVars, orderVars, editorVars, sizeVars, importVars, adjustVars, libraryVars>>

\* confirm() after its awaits: dismiss, clearEdgeDetectionState,
\* setActiveDocument with the cropped image or else this.imageData, navigate
Confirm_finish ==
    /\ confirmPc = "resolved"
    /\ overlay' = "none"
    /\ edgeDetectionState' = Null
    /\ flowActiveDoc' = [image |-> IF croppedImage # Null THEN croppedImage
                                   ELSE edgeDetectionState.imageData]
    /\ route' = "editor"
    /\ confirmPc' = "idle"
    /\ adjustPc' = "idle"
    /\ UNCHANGED <<cvState, cvReady, flowImage, detectPc, detectResult, corners,
                   croppedImage>>
    /\ UNCHANGED <<filterVars, orderVars, editorVars, sizeVars, importVars, adjustVars, libraryVars>>

\* The steps the browser takes by itself: events, timers, continuations
FlowSystemStep ==
    \/ Cv_constructorLoadResolves
    \/ Cv_constructorLoadRejects
    \/ Detect_loadOpenCVResolves
    \/ Detect_loadOpenCVRejects
    \/ Detect_imageError
    \/ Detect_imageLoaded
    \/ Detect_pipelineThrows
    \/ Detect_finish
    \/ Adjust_imageLoaded
    \/ Adjust_imageError
    \/ Confirm_warped
    \/ Confirm_warpThrows
    \/ Confirm_finish

\* The steps the user takes
FlowUserStep ==
    \/ Home_detectAndCrop
    \/ Adjust_cancel
    \/ Adjust_confirm

FlowNext == FlowSystemStep \/ FlowUserStep

\* A pending event, timer or continuation is eventually run
FlowSpec == FlowInit /\ [][FlowNext]_vars /\ WF_vars(FlowSystemStep)

\* C8: every call of detectAndCrop eventually stores an edge-detection state
\* and navigates to the corner-adjustment step, whatever the outcome of the
\* detection.
DetectAndCropAlwaysNavigates ==
    (detectPc # "idle") ~> (route = "edge-adjust" /\ edgeDetectionState # Null)

\* C7: after the user confirms the corners the flow eventually sets an active
\* document and enters the editor, for every outcome of the rectification.
ConfirmAlwaysEntersEditor ==
    (confirmPc # "idle") ~> (route = "editor" /\ flowActiveDoc # Null)

\* C14: perspectiveTransform called with a corner list whose length is not
\* exactly 4 yields the failure result without decoding the image or
\* attempting a warp, and produces no image.
WrongCornerCountYieldsNoImage ==
    /\ [](Len(corners) # 4 => (confirmPc \notin {"image", "threw"} /\ croppedImage = Null))
    /\ [][(confirmPc = "idle" /\ confirmPc' # "idle" /\ Len(corners) # 4) =>
            (confirmPc' = "resolved" /\ croppedImage' = Null)]_vars

\* confirm() was called before the image had loaded, with no corners yet,
\* and perspectiveTransform has returned null
ConfirmedWithoutCorners ==
    /\ confirmPc = "resolved"
    /\ overlay = "Straightening document..."
    /\ Len(corners) = 0
    /\ croppedImage = Null
    /\ edgeDetectionState.imageData.decodable

\* C15: detectDocumentEdges resolves either to no result or to a list of
\* exactly 4 points; it resolves to no result when there is no contour of
\* positive area and when the approximation of the largest-area contour has
\* not exactly 4 vertices.
DetectionYieldsQuadOrNothing ==
    detectPc = "resolved" =>
        LET contours == flowImage.contours
            largest == {i \in 1..Len(contours) :
                            \A j \in 1..Len(contours) : contours[j].area <= contours[i].area}
        IN  /\ detectResult = Null \/ Len(detectResult) = 4
            /\ (\A i \in 1..Len(contours) : contours[i].area <= 0) => detectResult = Null
            /\ (\A i \in largest : Len(contours[i].approx) # 4) => detectResult = Null

\* A photograph with a quadrilateral inside a larger five-sided contour:
\* the detection resolves to no result
QuadInsideLargerPentagonMissed ==
    /\ detectPc = "resolved"
    /\ detectResult = Null
    /\ \E i \in 1..Len(flowImage.contours) :
         flowImage.contours[i].area > 0 /\ Len(flowImage.contours[i].approx) = 4
    /\ \E i \in 1..Len(flowImage.contours) : Len(flowImage.contours[i].approx) = 5

-----------------------------------------------------------------------------
(* AdjustSpec: EdgeAdjustComponent, its corners under touch and mouse      *)
(* events.  Pointer positions are whole canvas pixels relative to the      *)
(* canvas (clientX - rect.left, clientY - rect.top); the corners are in    *)
(* units of 1/den canvas pixel, as in FlowSpec.  Pointer events are        *)
(* followed up to confirm(), whose loading overlay then covers the canvas. *)

\* The corners of a page that fills the photograph
FrameQuad(w, h) ==
    <<[x |-> 0, y |-> 0], [x |-> w - 1, y |-> 0],
      [x |-> w - 1, y |-> h - 1], [x |-> 0, y |-> h - 1]>>

\* What the component is opened with: photographs with the corners found
\* in them, photographs and small images in which none were found, and a
\* state whose detectedCorners is a list of 3
AdjustStates ==
    {[imageData |-> [width |-> 640, height |-> 800], detectedCorners |-> InsetQuad(640, 800)],
     [imageData |-> [width |-> 640, height |-> 800], detectedCorners |-> Null],
     [imageData |-> [width |-> 640, height |-> 800], detectedCorners |-> Triangle(640, 800)],
     [imageData |-> [width |-> 800, height |-> 1002],
      detectedCorners |-> FrameQuad(800, 1002)],
     [imageData |-> [width |-> 80, height |-> 60], detectedCorners |-> Null],
     [imageData |-> [width |-> 20, height |-> 20], detectedCorners |-> Null]}

\* Where the pointer is put down and moved to
PointerPositions == {-10, 30, 500}

\* A canvas element before its size is set
DefaultCanvas == [width |-> 300, height |-> 150]

AdjustInit ==
    /\ adjustState \in AdjustStates
    /\ adjustCanvas = DefaultCanvas
    /\ adjustCorners = << >>
    /\ draggingIndex = 0
    /\ imageLoaded = FALSE
    /\ confirmedCorners = Null
    /\ FilterIdle /\ OrderIdle /\ FlowIdle /\ EditorIdle /\ SizeIdle /\ ImportIdle /\ LibraryIdle

\* den of this.scale: 1 before loadImage has set the scale
AdjustDen == IF imageLoaded THEN ScaleOf(adjustState.imageData)[2] ELSE 1

\* loadImage, img.onload
Drag_imageLoaded ==
    /\ ~imageLoaded
    /\ adjustCanvas' = CanvasSize(adjustState.imageData)
    /\ adjustCorners' = InitialCorners(adjustState.imageData, adjustState.detectedCorners)
    /\ imageLoaded' = TRUE
    /\ UNCHANGED <<adjustState, draggingIndex, confirmedCorners>>
    /\ UNCHANGED <<filterVars, orderVars, flowVars, editorVars, sizeVars, importVars, libraryVars>>

\* The loop of onTouchStart and onMouseDown: the first corner nearer than
\* 50 pixels to (x, y) becomes the dragged one; with none, draggingIndex
\* keeps its value.  (distance < 50 is dx^2 + dy^2 < 50^2, written so that
\* no intermediate value leaves the 32-bit range.)
draggingIndexAfterStart(cornerList, dragging, x, y, den) ==
    LET r == 50 * den
        near == {i \in 1..Len(cornerList) :
                    LET dx == x * den - cornerList[i].x
                        dy == y * den - cornerList[i].y
                    IN  /\ -r < dx /\ dx < r
                        /\ -r < dy /\ dy < r
                        /\ dx * dx < r * r - dy * dy}
    IN  IF near = {} THEN dragging
        ELSE CHOOSE i \in near : \A j \in near : i <= j

\* Math.max(0, Math.min(position, size)), in units of 1/den pixel
ClampToCanvas(position, size, den) == Max(0, Min(position * den, size * den))

\* The body of onTouchMove and onMouseMove when a corner is dragged
cornersAfterMove(cornerList, dragging, x, y, cnv, den) ==
    [cornerList EXCEPT ![dragging] = [x |-> ClampToCanvas(x, cnv.width, den),
                                      y |-> ClampToCanvas(y, cnv.height, den)]]

Drag_onTouchStart ==
    /\ confirmedCorners = Null
    /\ \E x \in PointerPositions, y \in PointerPositions :
         draggingIndex' = draggingIndexAfterStart(adjustCorners, draggingIndex, x, y, AdjustDen)
    /\ UNCHANGED <<adjustState, adjustCanvas, adjustCorners, imageLoaded, confirmedCorners>>
    /\ UNCHANGED <<filterVars, orderVars, flowVars, editorVars, sizeVars, importVars, libraryVars>>

Drag_onTouchMove ==
    /\ confirmedCorners = Null
    /\ \E x \in PointerPositions, y \in PointerPositions :
         adjustCorners' =
            IF draggingIndex # 0
            THEN cornersAfterMove(adjustCorners, draggingIndex, x, y, adjustCanvas, AdjustDen)
            ELSE adjustCorners
    /\ UNCHANGED <<adjustState, adjustCanvas, draggingIndex, imageLoaded, confirmedCorners>>
    /\ UNCHANGED <<filterVars, orderVars, flowVars, editorVars, sizeVars, importVars, libraryVars>>

Drag_onTouchEnd ==
    /\ confirmedCorners = Null
    /\ draggingIndex' = 0
    /\ UNCHANGED <<adjustState, adjustCanvas, adjustCorners, imageLoaded, confirmedCorners>>
    /\ UNCHANGED <<filterVars, orderVars, flowVars, editorVars, sizeVars, importVars, libraryVars>>

Drag_onMouseDown ==
    /\ confirmedCorners = Null
    /\ \E x \in PointerPositions, y \in PointerPositions :
         draggingIndex' = draggingIndexAfterStart(adjustCorners, draggingIndex, x, y, AdjustDen)
    /\ UNCHANGED <<adjustState, adjustCanvas, adjustCorners, imageLoaded, confirmedCorners>>
    /\ UNCHANGED <<filterVars, orderVars, flowVars, editorVars, sizeVars, importVars, libraryVars>>

Drag_onMouseMove ==
    /\ confirmedCorners = Null
    /\ \E x \in PointerPositions, y \in PointerPositions :
         adjustCorners' =
            IF draggingIndex # 0
            THEN cornersAfterMove(adjustCorners, draggingIndex, x, y, adjustCanvas, AdjustDen)
            ELSE adjustCorners
    /\ UNCHANGED <<adjustState, adjustCanvas, draggingIndex, imageLoaded, confirmedCorners>>
    /\ UNCHANGED <<filterVars, orderVars, flowVars, editorVars, sizeVars, importVars, libraryVars>>

Drag_onMouseUp ==
    /\ confirmedCorners = Null
    /\ draggingIndex' = 0
    /\ UNCHANGED <<adjustState, adjustCanvas, adjustCorners, imageLoaded, confirmedCorners>>
    /\ UNCHANGED <<filterVars, orderVars, flowVars, editorVars, sizeVars, importVars, libraryVars>>

\* confirm(), its first statement: the corners divided by the scale (a
\* stored number n is now the image coordinate n/num) go to cropAndTransform
Drag_confirm ==
    /\ confirmedCorners = Null
    /\ confirmedCorners' = [points |-> [i \in 1..Len(adjustCorners) |-> adjustCorners[i]]]
    /\ UNCHANGED <<adjustState, adjustCanvas, adjustCorners, draggingIndex, imageLoaded>>
    /\ UNCHANGED <<filterVars, orderVars, flowVars, editorVars, sizeVars, importVars, libraryVars>>

AdjustNext ==
    \/ Drag_imageLoaded
    \/ Drag_onTouchStart
    \/ Drag_onTouchMove
    \/ Drag_onTouchEnd
    \/ Drag_onMouseDown
    \/ Drag_onMouseMove
    \/ Drag_onMouseUp
    \/ Drag_confirm

AdjustSpec == AdjustInit /\ [][AdjustNext]_vars

\* C24: once the image has loaded in the corner-adjustment step the corner
\* list holds exactly 4 points, whether detection returned a quad, nothing
\* or a list of another length, and still holds exactly 4 after any
\* sequence of touch/mouse start, move and end events; confirm then passes
\* exactly 4 points to the rectifier.
CornerListHoldsFourPoints ==
    /\ [](imageLoaded => Len(adjustCorners) = 4)
    /\ [][(imageLoaded /\ confirmedCorners = Null /\ confirmedCorners' # Null) =>
            Len(confirmedCorners'.points) = 4]_vars

\* Opened with a detection of 3 points: the default corners were set, one
\* of them was dragged, and confirm passed the 4 on
DraggedDefaultCornersConfirmed ==
    /\ imageLoaded
    /\ Len(adjustState.detectedCorners) = 3
    /\ adjustCorners # InitialCorners(adjustState.imageData, Null)
    /\ confirmedCorners # Null
    /\ Len(confirmedCorners.points) = 4
    /\ confirmedCorners.points = adjustCorners

\* C30: in the corner-adjustment step, after the image has loaded and after
\* any sequence of touch/mouse events, every one of the 4 corners lies
\* inside the canvas, 0 <= x <= canvas.width and 0 <= y <= canvas.height,
\* for every canvas size.
CornersStayInsideCanvas ==
    imageLoaded =>
        \A i \in 1..Len(adjustCorners) :
            /\ 0 <= adjustCorners[i].x
            /\ adjustCorners[i].x <= adjustCanvas.width * AdjustDen
            /\ 0 <= adjustCorners[i].y
            /\ adjustCorners[i].y <= adjustCanvas.height * AdjustDen

-----------------------------------------------------------------------------
(* DocumentProcessingService.loadImageToCanvas and canvas.toDataURL.       *)
(* A data URL is the image it encodes: [width, height, data], with q, the  *)
(* JPEG qualities (in percent) its pixels have been through, for JPEG is   *)
(* lossy, and decodable, FALSE for bytes that are no image.                *)

\* The maxWidth of the previews and of the pages saved
PreviewMaxWidth == 1000
ExportMaxWidth == 2500
\* The JPEG qualities of the previews and of the pages saved
PreviewQuality == 85
ExportQuality == 95

\* scale = Math.min(1, maxWidth / img.width); the canvas is img.width * scale
\* by img.height * scale, in whole pixels
ScaledSize(width, height, maxWidth) ==
    IF width <= maxWidth THEN [width |-> width, height |-> height]
    ELSE [width |-> maxWidth, height |-> (height * maxWidth) \div width]

\* ctx.drawImage(img, 0, 0, canvas.width, canvas.height): the pixels of img
\* resampled (nearest source pixel) to width x height
drawImage(img, width, height) ==
    [k \in 1..(width * height * 4) |->
        LET p == (k - 1) \div 4
            sx == ((p % width) * img.width) \div width
            sy == ((p \div width) * img.height) \div height
        IN  img.data[4 * (sy * img.width + sx) + ((k - 1) % 4) + 1]]

\* The canvas after img.onload of loadImageToCanvas, which is also the
\* ImageData `original` the promise resolves with
loadImageToCanvas(dataUrl, maxWidth) ==
    LET size == ScaledSize(dataUrl.width, dataUrl.height, maxWidth)
    IN  [width |-> size.width, height |-> size.height,
         data |-> drawImage(dataUrl, size.width, size.height), q |-> dataUrl.q]

\* canvas.toDataURL('image/jpeg', quality)
toDataURL(cnv, quality) ==
    [width |-> cnv.width, height |-> cnv.height, data |-> cnv.data,
     q |-> Append(cnv.q, quality), decodable |-> TRUE]

-----------------------------------------------------------------------------
(* LoadSpec: the canvas loadImageToCanvas makes of an image of a given size *)

\* Widths and heights of source images, in pixels.  For these sizes the
\* products img.width * scale and img.height * scale, which the code forms
\* in doubles and the canvas truncates, are the exact ones.
SourceDimensions == {500 * k : k \in 1..MaxSizeSteps}

LoadInit ==
    /\ \E w \in SourceDimensions, h \in SourceDimensions :
         sourceSize = [width |-> w, height |-> h]
    /\ loadedCanvas = << >>
    /\ FilterIdle /\ OrderIdle /\ FlowIdle /\ EditorIdle /\ ImportIdle /\ AdjustIdle /\ LibraryIdle

\* loadImageToCanvas(canvas, dataUrl, maxWidth), img.onload: the editor
\* calls it with 1000 for the previews and with 2500 for the pages it saves
Service_loadImageToCanvas ==
    /\ \E maxWidth \in {PreviewMaxWidth, ExportMaxWidth} :
         LET size == ScaledSize(sourceSize.width, sourceSize.height, maxWidth)
         IN  loadedCanvas' = [width |-> size.width, height |-> size.height,
                              maxWidth |-> maxWidth]
    /\ UNCHANGED <<sourceSize, filterVars, orderVars, flowVars, editorVars, importVars, adjustVars, libraryVars>>

LoadNext == Service_loadImageToCanvas

LoadSpec == LoadInit /\ [][LoadNext]_vars

\* C16: for every source image size, the preview buffer has
\* max(width, height) <= 1000 and the export buffer max(width, height) <= 2500;
\* an image already within the bound is not resized.
BufferWithinMaxDimension ==
    loadedCanvas # << >> =>
        /\ Max(loadedCanvas.width, loadedCanvas.height) <= loadedCanvas.maxWidth
        /\ Max(sourceSize.width, sourceSize.height) <= loadedCanvas.maxWidth =>
                (loadedCanvas.width = sourceSize.width
                 /\ loadedCanvas.height = sourceSize.height)

-----------------------------------------------------------------------------
(* ImportSpec: HomePage.handleFileSelect with a PDF file, and              *)
(* DocumentProcessingService.processPDFFile                                *)

\* A page of a PDF file: what it shows, and whether pdf.js can render it
PdfPages == [content : {"text", "photo"}, renderable : BOOLEAN]

\* The PDF files the user may select
PdfFiles == UNION {[1..n -> PdfPages] : n \in 1..MaxPdfPages}

\* canvas.toDataURL('image/jpeg', 0.95) of the rendered page pageNum
renderedPage(file, pageNum) ==
    [pageNum |-> pageNum, content |-> file[pageNum].content, q |-> <<ExportQuality>>]

ImportInit ==
    /\ ImportIdle
    /\ FilterIdle /\ OrderIdle /\ FlowIdle /\ EditorIdle /\ SizeIdle /\ AdjustIdle /\ LibraryIdle

\* handleFileSelect with a file of type application/pdf, up to the first
\* await of the page loop of processPDFFile
Home_handleFileSelect ==
    /\ importPc = "idle" /\ importRoute = "home" /\ importOverlay = "none"
    /\ \E file \in PdfFiles : pdfFile' = file
    /\ importOverlay' = "Processing PDF..."
    /\ allPages' = << >>
    /\ importPc' = "pages"
    /\ UNCHANGED <<importActiveDoc, importRoute>>
    /\ UNCHANGED <<filterVars, orderVars, flowVars, editorVars, sizeVars, adjustVars, libraryVars>>

\* processPDFFile: the next page is rendered and handed to the callback,
\* which pushes it; after the last page processPDFFile resolves
Pdf_pageRendered ==
    /\ importPc = "pages"
    /\ LET pageNum == Len(allPages) + 1
       IN  /\ pdfFile[pageNum].renderable
           /\ allPages' = Append(allPages, renderedPage(pdfFile, pageNum))
           /\ importOverlay' = "Processing page"
           /\ importPc' = IF pageNum = Len(pdfFile) THEN "processed" ELSE "pages"
    /\ UNCHANGED <<pdfFile, importActiveDoc, importRoute>>
    /\ UNCHANGED <<filterVars, orderVars, flowVars, editorVars, sizeVars, adjustVars, libraryVars>>

\* processPDFFile: getPage or render rejects for the next page; the loop has
\* no handler, processPDFFile rejects, and handleFileSelect, which has none
\* either, ends at its await
Pdf_pageFails ==
    /\ importPc = "pages"
    /\ ~pdfFile[Len(allPages) + 1].renderable
    /\ importPc' = "rejected"
    /\ UNCHANGED <<pdfFile, allPages, importOverlay, importActiveDoc, importRoute>>
    /\ UNCHANGED <<filterVars, orderVars, flowVars, editorVars, sizeVars, adjustVars, libraryVars>>

\* handleFileSelect after processPDFFile: dismiss, and open the editor with
\* the pages collected
Import_finish ==
    /\ importPc = "processed"
    /\ importOverlay' = "none"
    /\ IF Len(allPages) > 0
       THEN /\ importActiveDoc' = [images |-> allPages, image |-> allPages[1]]
            /\ importRoute' = "editor"
       ELSE UNCHANGED <<importActiveDoc, importRoute>>
    /\ importPc' = "idle"
    /\ UNCHANGED <<pdfFile, allPages>>
    /\ UNCHANGED <<filterVars, orderVars, flowVars, editorVars, sizeVars, adjustVars, libraryVars>>

\* The steps pdf.js and the promise continuations take by themselves
ImportSystemStep ==
    \/ Pdf_pageRendered
    \/ Pdf_pageFails
    \/ Import_finish

ImportNext == Home_handleFileSelect \/ ImportSystemStep

\* A pending render or continuation is eventually run
ImportSpec == ImportInit /\ [][ImportNext]_vars /\ WF_vars(ImportSystemStep)

RECURSIVE RenderablePages(_, _)
\* The rendered pages of the renderable pages of a file from pageNum on
RenderablePages(file, pageNum) ==
    IF pageNum > Len(file) THEN << >>
    ELSE (IF file[pageNum].renderable THEN <<renderedPage(file, pageNum)>> ELSE << >>)
         \o RenderablePages(file, pageNum + 1)

\* C19: in a multi-page import, a decode or render failure of one page does
\* not abort the remaining pages: every other page is still processed and
\* delivered to the session.
ImportDeliversEveryOtherPage ==
    (importPc = "pages") ~>
        (/\ importPc = "idle"
         /\ RenderablePages(pdfFile, 1) # << >> =>
                (/\ importRoute = "editor"
                 /\ importActiveDoc # << >>
                 /\ importActiveDoc.images = RenderablePages(pdfFile, 1)))

-----------------------------------------------------------------------------
(* Spec: DocEditorComponent *)

\* The filters the user chooses among
OfferedFilters == {Filters[i] : i \in 1..Min(NumFilters, Len(Filters))}

\* The i-th page of a document: a small image of its own colours
SamplePage(i, decodable) ==
    LET width == 1 + (i % 2)
        bg == Palette[(i % Len(Palette)) + 1]
        ink == Palette[((i + 2) % Len(Palette)) + 1]
    IN  [width |-> width, height |-> 1, data |-> PaintedData(width, 1, bg, ink, 1),
         q |-> << >>, decodable |-> decodable]

\* The state when ngAfterViewInit has returned: the active document is taken
\* and loadImage() has run to its first await
Init ==
    /\ \E n \in 1..MaxPages, bad \in 0..MaxPages :
         images = [i \in 1..n |-> SamplePage(i, i # bad)]
    /\ editorRoute = "editor"
    /\ activeDocument \in {"new", "existing"}
    /\ activeFilter = "original"
    /\ loading = TRUE
    /\ currentPage = 0
    /\ totalPages = Len(images)
    /\ allPreviewData = << >>
    /\ allFullResData = images
    /\ originalImageData = NoImage
    /\ canvas = NoImage
    /\ loadPc = "previews"
    /\ pageLoads = << >>
    /\ rafQueue = << >>
    /\ saves = << >>
    /\ library = IF activeDocument = "existing" THEN <<[kind |-> "opened", updates |-> 0]>>
                 ELSE << >>
    /\ FilterIdle /\ OrderIdle /\ FlowIdle /\ SizeIdle /\ ImportIdle /\ AdjustIdle /\ LibraryIdle

\* loadCurrentPage() up to its await: the loads pending afterwards.  awaited
\* tells the call of loadImage, which awaits it, from those of nextPage and
\* prevPage, which do not.
loadCurrentPage(page, previews, awaited) ==
    IF page + 1 \in 1..Len(previews)
    THEN Append(pageLoads, [url |-> previews[page + 1], awaited |-> awaited])
    ELSE pageLoads

\* loadImage: a preview is rendered; after the last one, currentPage = 0 and
\* loadCurrentPage() is awaited
Load_previewLoaded ==
    /\ loadPc = "previews"
    /\ Len(pageLoads) < MaxPageLoads
    /\ LET i == Len(allPreviewData) + 1
           tempCanvas == loadImageToCanvas(allFullResData[i], PreviewMaxWidth)
           previews == Append(allPreviewData, toDataURL(tempCanvas, PreviewQuality))
       IN  /\ allFullResData[i].decodable
           /\ allPreviewData' = previews
           /\ IF i = Len(allFullResData)
              THEN /\ currentPage' = 0
                   /\ pageLoads' = loadCurrentPage(0, previews, TRUE)
                   /\ loadPc' = "page"
              ELSE UNCHANGED <<currentPage, pageLoads, loadPc>>
    /\ UNCHANGED <<images, editorRoute, activeDocument, activeFilter, loading, totalPages,
                   allFullResData, originalImageData, canvas, rafQueue, saves, library>>
    /\ UNCHANGED <<filterVars, orderVars, flowVars, sizeVars, importVars, adjustVars, libraryVars>>

\* loadImage: a page does not decode; loadImageToCanvas rejects and loadImage
\* ends at its await
Load_previewError ==
    /\ loadPc = "previews"
    /\ ~allFullResData[Len(allPreviewData) + 1].decodable
    /\ loadPc' = "failed"
    /\ UNCHANGED <<images, editorRoute, activeDocument, activeFilter, loading, currentPage,
                   totalPages, allPreviewData, allFullResData, originalImageData, canvas,
                   pageLoads, rafQueue, saves, library>>
    /\ UNCHANGED <<filterVars, orderVars, flowVars, sizeVars, importVars, adjustVars, libraryVars>>

\* this.applyFilter(filter) of the component: the callbacks scheduled with
\* requestAnimationFrame afterwards
scheduleFilter(filter, original) ==
    IF original = NoImage THEN rafQueue ELSE Append(rafQueue, filter)

\* loadCurrentPage after its await: one of the pending loads has drawn its
\* preview on the canvas; the filter is applied again; loadImage, when it
\* awaited this call, ends.  The loads complete in any order.
Page_loaded ==
    /\ \E k \in 1..Len(pageLoads) :
         LET result == loadImageToCanvas(pageLoads[k].url, PreviewMaxWidth)
         IN  /\ canvas' = result
             /\ originalImageData' = result
             /\ IF activeFilter # "original"
                THEN /\ Len(rafQueue) < MaxRaf
                     /\ rafQueue' = scheduleFilter(activeFilter, result)
                ELSE UNCHANGED rafQueue
             /\ IF pageLoads[k].awaited
                THEN loading' = FALSE /\ loadPc' = "done"
                ELSE UNCHANGED <<loading, loadPc>>
             /\ pageLoads' = SubSeq(pageLoads, 1, k - 1)
                             \o SubSeq(pageLoads, k + 1, Len(pageLoads))
    /\ UNCHANGED <<images, editorRoute, activeDocument, activeFilter, currentPage,
                   totalPages, allPreviewData, allFullResData, saves, library>>
    /\ UNCHANGED <<filterVars, orderVars, flowVars, sizeVars, importVars, adjustVars, libraryVars>>

\* A guard of nextPage that lets the page index reach totalPages
canGoNextPastEnd == currentPage < totalPages

\* The guards of nextPage and of prevPage
canGoNext == currentPage < totalPages - 1
canGoPrev == currentPage > 0

Editor_nextPage ==
    /\ editorRoute = "editor"
    /\ Len(pageLoads) < MaxPageLoads
    /\ IF canGoNext
       THEN /\ currentPage' = currentPage + 1
            /\ pageLoads' = loadCurrentPage(currentPage + 1, allPreviewData, FALSE)
       ELSE UNCHANGED <<currentPage, pageLoads>>
    /\ UNCHANGED <<images, editorRoute, activeDocument, activeFilter, loading, totalPages,
                   allPreviewData, allFullResData, originalImageData, canvas, loadPc,
                   rafQueue, saves, library>>
    /\ UNCHANGED <<filterVars, orderVars, flowVars, sizeVars, importVars, adjustVars, libraryVars>>

Editor_prevPage ==
    /\ editorRoute = "editor"
    /\ Len(pageLoads) < MaxPageLoads
    /\ IF canGoPrev
       THEN /\ currentPage' = currentPage - 1
            /\ pageLoads' = loadCurrentPage(currentPage - 1, allPreviewData, FALSE)
       ELSE UNCHANGED <<currentPage, pageLoads>>
    /\ UNCHANGED <<images, editorRoute, activeDocument, activeFilter, loading, totalPages,
                   allPreviewData, allFullResData, originalImageData, canvas, loadPc,
                   rafQueue, saves, library>>
    /\ UNCHANGED <<filterVars, orderVars, flowVars, sizeVars, importVars, adjustVars, libraryVars>>

\* applyFilter(filter) of the component
Editor_applyFilter ==
    /\ editorRoute = "editor"
    /\ Len(rafQueue) < MaxRaf
    /\ \E filter \in OfferedFilters :
         /\ activeFilter' = filter
         /\ rafQueue' = scheduleFilter(filter, originalImageData)
    /\ UNCHANGED <<images, editorRoute, activeDocument, loading, currentPage, totalPages,
                   allPreviewData, allFullResData, originalImageData, canvas, loadPc,
                   pageLoads, saves, library>>
    /\ UNCHANGED <<filterVars, orderVars, flowVars, sizeVars, importVars, adjustVars, libraryVars>>

\* The oldest callback of requestAnimationFrame runs:
\* docService.applyFilter(canvas, filter, this.originalImageData)
Raf_run ==
    /\ rafQueue # << >>
    /\ canvas' = applyFilter(canvas, Head(rafQueue), originalImageData)
    /\ rafQueue' = Tail(rafQueue)
    /\ UNCHANGED <<images, editorRoute, activeDocument, activeFilter, loading, currentPage,
                   totalPages, allPreviewData, allFullResData, originalImageData, loadPc,
                   pageLoads, saves, library>>
    /\ UNCHANGED <<filterVars, orderVars, flowVars, sizeVars, importVars, adjustVars, libraryVars>>

\* cancel()
Editor_cancel ==
    /\ editorRoute = "editor"
    /\ activeDocument' = "none"
    /\ editorRoute' = "home"
    /\ UNCHANGED <<images, activeFilter, loading, currentPage, totalPages, allPreviewData,
                   allFullResData, originalImageData, canvas, loadPc, pageLoads, rafQueue,
                   saves, library>>
    /\ UNCHANGED <<filterVars, orderVars, flowVars, sizeVars, importVars, adjustVars, libraryVars>>

\* A save() that loads the preview of page i when there is one, where
\* saveSource loads the full-resolution page
saveSourcePreview(i) ==
    IF i <= Len(allPreviewData) THEN allPreviewData[i] ELSE allFullResData[i]

\* The source save() loads for its page i (1-based)
saveSource(i) == allFullResData[i]

\* One pass of the loop of save(): page i loaded into a canvas of its own at
\* the export width, filtered with the filter active now, and encoded
processedPage(i, filter) ==
    LET tempCanvas == loadImageToCanvas(saveSource(i), ExportMaxWidth)
    IN  toDataURL(IF filter # "original" THEN applyFilter(tempCanvas, filter, tempCanvas)
                  ELSE tempCanvas,
                  ExportQuality)

\* The filter the loop of save() applies to a page
saveFilter(filterAtStart) == activeFilter

\* An invocation of save() that has returned or thrown: its locals are gone
EndedSave(pc) ==
    [pc |-> pc, allProcessedImages |-> << >>, filterAtStart |-> "original"]

\* save() up to the first await of its loop.  filterAtStart remembers the
\* filter active at the call.
Editor_save ==
    /\ editorRoute = "editor"
    /\ Len(saves) < MaxSaves
    /\ images # << >>
    /\ loading' = TRUE
    /\ saves' = Append(saves, [pc |-> "loop", allProcessedImages |-> << >>,
                               filterAtStart |-> activeFilter])
    /\ UNCHANGED <<images, editorRoute, activeDocument, activeFilter, currentPage,
                   totalPages, allPreviewData, allFullResData, originalImageData, canvas,
                   loadPc, pageLoads, rafQueue, library>>
    /\ UNCHANGED <<filterVars, orderVars, flowVars, sizeVars, importVars, adjustVars, libraryVars>>

\* save() called once more while invocations of it are running: it has no
\* guard against that
Editor_saveAgain ==
    /\ editorRoute = "editor"
    /\ Len(saves) >= 1
    /\ \E s \in 1..Len(saves) : saves[s].pc \in {"loop", "persist"}
    /\ Len(saves) < MaxSaves + MaxResaves
    /\ images # << >>
    /\ loading' = TRUE
    /\ saves' = Append(saves, [pc |-> "loop", allProcessedImages |-> << >>,
                               filterAtStart |-> activeFilter])
    /\ UNCHANGED <<images, editorRoute, activeDocument, activeFilter, currentPage,
                   totalPages, allPreviewData, allFullResData, originalImageData, canvas,
                   loadPc, pageLoads, rafQueue, library>>
    /\ UNCHANGED <<filterVars, orderVars, flowVars, sizeVars, importVars, adjustVars, libraryVars>>

\* The loop of save() after its await: the page is filtered and pushed; after
\* the last page, loading = false and the document is handed to the library
\* (with a thumbnail of the visible canvas, which the model does not keep)
Save_pageLoaded ==
    /\ \E s \in 1..Len(saves) :
         LET i == Len(saves[s].allProcessedImages) + 1
             processed == Append(saves[s].allProcessedImages,
                                 processedPage(i, saveFilter(saves[s].filterAtStart)))
         IN  /\ saves[s].pc = "loop"
             /\ saveSource(i).decodable
             /\ IF i = Len(allFullResData)
                THEN /\ loading' = FALSE
                     /\ saves' = [saves EXCEPT ![s].allProcessedImages = processed,
                                               ![s].pc = "persist"]
                ELSE /\ saves' = [saves EXCEPT ![s].allProcessedImages = processed]
                     /\ UNCHANGED loading
    /\ UNCHANGED <<images, editorRoute, activeDocument, activeFilter, currentPage,
                   totalPages, allPreviewData, allFullResData, originalImageData, canvas,
                   loadPc, pageLoads, rafQueue, library>>
    /\ UNCHANGED <<filterVars, orderVars, flowVars, sizeVars, importVars, adjustVars, libraryVars>>

\* The loop of save(): a page does not decode; save() ends at its await
Save_pageError ==
    /\ \E s \in 1..Len(saves) :
         /\ saves[s].pc = "loop"
         /\ ~saveSource(Len(saves[s].allProcessedImages) + 1).decodable
         /\ saves' = [saves EXCEPT ![s] = EndedSave("failed")]
    /\ UNCHANGED <<images, editorRoute, activeDocument, activeFilter, loading, currentPage,
                   totalPages, allPreviewData, allFullResData, originalImageData, canvas,
                   loadPc, pageLoads, rafQueue, library>>
    /\ UNCHANGED <<filterVars, orderVars, flowVars, sizeVars, importVars, adjustVars, libraryVars>>

\* The library after the branch of save() on getActiveDocument(): with an
\* active document that has an originalDoc, updateDocument(originalDoc, ...),
\* the entry the session was opened from (the first here) updated; with
\* another or none, saveProcessedDocument adds an entry
libraryAfterSave(lib, activeDoc) ==
    IF activeDoc = "existing" THEN [lib EXCEPT ![1].updates = @ + 1]
    ELSE Append(lib, [kind |-> "added", updates |-> 0])

\* save() after its loop, the document written: updateDocument for a
\* document opened from the library, which catches every error of its
\* writes, or saveProcessedDocument for a new one, its writes succeeding;
\* then clearActiveDocument() and the navigation home
Save_persisted ==
    /\ \E s \in 1..Len(saves) :
         /\ saves[s].pc = "persist"
         /\ saves' = [saves EXCEPT ![s] = EndedSave("closed")]
    /\ library' = libraryAfterSave(library, activeDocument)
    /\ activeDocument' = "none"
    /\ editorRoute' = "home"
    /\ UNCHANGED <<images, activeFilter, loading, currentPage, totalPages, allPreviewData,
                   allFullResData, originalImageData, canvas, loadPc, pageLoads, rafQueue>>
    /\ UNCHANGED <<filterVars, orderVars, flowVars, sizeVars, importVars, adjustVars, libraryVars>>

\* save() after its loop, a new document, and Filesystem.writeFile rejects in
\* addDocument, which throws it on.  For one page (format 'image') save()
\* throws at await saveProcessedDocument; for several (format 'pdf') the
\* throw is inside reader.onloadend and the promise save() awaits never
\* settles.  Either way clearActiveDocument() and navigate are not reached.
Save_persistFails ==
    /\ activeDocument # "existing"
    /\ \E s \in 1..Len(saves) :
         /\ saves[s].pc = "persist"
         /\ saves' = [saves EXCEPT
                ![s] = EndedSave(IF Len(saves[s].allProcessedImages) > 1 THEN "stuck"
                                 ELSE "failed")]
    /\ UNCHANGED <<images, editorRoute, activeDocument, activeFilter, loading, currentPage,
                   totalPages, allPreviewData, allFullResData, originalImageData, canvas,
                   loadPc, pageLoads, rafQueue, library>>
    /\ UNCHANGED <<filterVars, orderVars, flowVars, sizeVars, importVars, adjustVars, libraryVars>>

Next ==
    \/ Load_previewLoaded
    \/ Load_previewError
    \/ Page_loaded
    \/ Editor_nextPage
    \/ Editor_prevPage
    \/ Editor_applyFilter
    \/ Raf_run
    \/ Editor_cancel
    \/ Editor_save
    \/ Save_pageLoaded
    \/ Save_pageError
    \/ Save_persisted
    \/ Save_persistFails

Spec == Init /\ [][Next]_vars

\* The steps the browser takes by itself: decoded images, animation frames,
\* finished writes, promise continuations
EditorSystemStep ==
    \/ Load_previewLoaded
    \/ Load_previewError
    \/ Page_loaded
    \/ Raf_run
    \/ Save_pageLoaded
    \/ Save_pageError
    \/ Save_persisted
    \/ Save_persistFails

\* A session in which the user does nothing but save, also repeatedly, or
\* cancel
SaveNext ==
    \/ Load_previewLoaded
    \/ Load_previewError
    \/ Page_loaded
    \/ Editor_cancel
    \/ Editor_save
    \/ Editor_saveAgain
    \/ Save_pageLoaded
    \/ Save_pageError
    \/ Save_persisted
    \/ Save_persistFails

\* Such a session, every pending step of the browser eventually taken
SaveSpec == Init /\ [][SaveNext]_vars /\ WF_vars(EditorSystemStep)

-----------------------------------------------------------------------------
(* Properties of the editor *)

\* What applyFilter renders from an original: the filter applied to it alone
Rendered(filter, original) ==
    [original EXCEPT !.data = FilteredData(filter, original)]

\* The ImageData a preview decodes to
PreviewOriginal(page) == loadImageToCanvas(allPreviewData[page + 1], PreviewMaxWidth)

\* The image save() is to produce for a raw page under a filter
ExportOf(raw, filter) ==
    toDataURL(Rendered(filter, loadImageToCanvas(raw, ExportMaxWidth)), ExportQuality)

\* C1: after any sequence of filter selections through applyFilter, once the
\* scheduled renderings have run, the canvas holds the last selected filter
\* applied alone to the unmodified original of a page; the selections before
\* it leave no trace.
FilterAlwaysFromOriginal ==
    (rafQueue = << >> /\ originalImageData # NoImage) =>
        /\ \E page \in 0..(Len(allPreviewData) - 1) :
             originalImageData = PreviewOriginal(page)
        /\ canvas = Rendered(activeFilter, originalImageData)

\* save() was called under adaptive-threshold, grayscale was selected after
\* it, and the canvas shows the page in plain grayscale
SecondFilterRendered ==
    /\ rafQueue = << >>
    /\ activeFilter = "grayscale"
    /\ \E s \in 1..Len(saves) :
         saves[s].pc = "loop" /\ saves[s].filterAtStart = "adaptive-threshold"
    /\ originalImageData # NoImage
    /\ canvas = Rendered("grayscale", originalImageData)
    /\ canvas # originalImageData
    /\ canvas # Rendered("grayscale", Rendered("adaptive-threshold", originalImageData))

\* C2: save() processes the pages in page order, each exactly once and each
\* from its own full-resolution source loaded at the export width, never
\* from a preview or the visible canvas; when the loop has ended, there are
\* as many processed images as pages.
SaveUsesFullResolutionPages ==
    /\ allFullResData = images
    /\ \A s \in 1..Len(saves) :
         LET done == saves[s].allProcessedImages
         IN  /\ Len(done) <= Len(images)
             /\ \A i \in 1..Len(done) : \E f \in FilterKinds : done[i] = ExportOf(images[i], f)
             /\ saves[s].pc = "persist" => Len(done) = totalPages

\* A save of several pages under a filter, its loop ended, the previews ready
SaveOfSeveralPagesEnded ==
    \E s \in 1..Len(saves) :
        /\ saves[s].pc = "persist"
        /\ Len(saves[s].allProcessedImages) > 1
        /\ Len(allPreviewData) = Len(images)
        /\ saves[s].allProcessedImages[2] = ExportOf(images[2], "grayscale")
        /\ canvas # NoImage

\* C3: every image a save() produces is filtered with the activeFilter that
\* was selected when save() was invoked, for any interleaving of applyFilter
\* with the awaits of the loop.
SaveAppliesOneFilter ==
    \A s \in 1..Len(saves) :
        \A i \in 1..Len(saves[s].allProcessedImages) :
            saves[s].allProcessedImages[i] = ExportOf(images[i], saves[s].filterAtStart)

\* nextPage on the last page and prevPage on page 0 change neither the page
\* nor the canvas, and start no page load
BoundaryNavigationIsNoOp ==
    /\ (Editor_nextPage /\ currentPage = totalPages - 1) =>
            UNCHANGED <<currentPage, pageLoads, canvas, originalImageData, rafQueue>>
    /\ (Editor_prevPage /\ currentPage = 0) =>
            UNCHANGED <<currentPage, pageLoads, canvas, originalImageData, rafQueue>>

\* C4: 0 <= currentPage < totalPages holds after any sequence of nextPage,
\* prevPage and applyFilter; nextPage on the last page and prevPage on page 0
\* are no-ops that leave currentPage unchanged and trigger no page reload.
CurrentPageStaysInRange ==
    /\ [](0 <= currentPage /\ currentPage < totalPages)
    /\ [][BoundaryNavigationIsNoOp]_vars

\* The session is loaded and the user has paged forward to the last page
OnLastPageOfSeveral ==
    /\ loadPc = "done"
    /\ totalPages > 1
    /\ currentPage = totalPages - 1
    /\ pageLoads = << >>
    /\ originalImageData = PreviewOriginal(currentPage)
    /\ activeFilter # "original"

\* C5: once every pending page load and scheduled render has completed, the
\* canvas shows activeFilter applied to the preview original of the page at
\* currentPage, and originalImageData is that page's preview original,
\* whatever the order in which overlapping loadCurrentPage calls complete.
CanvasShowsCurrentPage ==
    (loadPc = "done" /\ pageLoads = << >> /\ rafQueue = << >>) =>
        /\ originalImageData = PreviewOriginal(currentPage)
        /\ canvas = Rendered(activeFilter, PreviewOriginal(currentPage))

\* A save() is in its loop or persisting
Saving == \E s \in 1..Len(saves) : saves[s].pc \in {"loop", "persist"}

\* C17: a session moves through Empty, Loading, Ready, Saving, Closed in
\* this order only: the save pass cannot begin while the session is still
\* Loading, and page navigation or filter changes do not run while the
\* session is Saving.
PhasesInOrder ==
    /\ [](Saving => loadPc = "done")
    /\ [][(Saving /\ Saving') =>
            UNCHANGED <<currentPage, activeFilter, canvas, originalImageData>>]_vars

\* C18: every save() that starts its processing eventually reaches Closed:
\* the active document is cleared and the app has navigated home, including
\* when persisting the document fails.
SaveAlwaysCloses ==
    (\E s \in 1..Len(saves) : saves[s].pc = "loop") ~>
        (editorRoute = "home" /\ activeDocument = "none")

\* C27: whenever the editor's loading flag becomes true (at the start of
\* loadImage or of save) it eventually becomes false again, including when
\* decoding one of the page images fails.
LoadingAlwaysClears == loading ~> ~loading

\* The entries the session has added to the library
AddedEntries == {i \in 1..Len(library) : library[i].kind = "added"}

\* C25: a session opened from an existing library document (originalDoc
\* set) always ends its save by updating that document and never by adding
\* a new library entry, for every interleaving of save() with cancel()
\* during the awaits of the save loop.
ExistingSessionSavesByUpdate ==
    (Len(library) >= 1 /\ library[1].kind = "opened") =>
        /\ AddedEntries = {}
        /\ (\E s \in 1..Len(saves) : saves[s].pc = "closed") => library[1].updates >= 1

\* C26: one editing session adds or updates at most one library document:
\* if save() is invoked again before an earlier invocation has finished, the
\* library still gains at most one entry for that session.
SessionAddsAtMostOneEntry == Cardinality(AddedEntries) <= 1

-----------------------------------------------------------------------------
(* DeleteSpec and UpdateSpec: the library of DocumentProcessingService,    *)
(* deleteDocument and updateDocument.  A file name is a number; the names  *)
(* the code makes of the time and a random number (doc_<time>_<random>,    *)
(* thumb_<time>_<random>) are taken to be new each time.                   *)

\* The names and dates (toLocaleString(), to the second) of the documents
DocNames == {"Scan", "Bill"}
DocDates == {"10:15:01", "10:15:02"}

\* A library of n documents, each with a file and a thumbnail of its own
SampleLibrary(names, dates) ==
    [i \in 1..Len(names) |->
        [id |-> i, name |-> names[i], date |-> dates[i],
         fullImage |-> 2 * i - 1, thumbnail |-> 2 * i]]

LibraryInit ==
    /\ \E n \in 1..MaxDocs :
         \E names \in [1..n -> DocNames], dates \in [1..n -> DocDates] :
            /\ documents = SampleLibrary(names, dates)
            /\ files = 1..(2 * n)
            /\ nextFile = 2 * n + 1
    /\ deletion = << >>
    /\ updates = << >>
    /\ FilterIdle /\ OrderIdle /\ FlowIdle /\ EditorIdle /\ SizeIdle /\ ImportIdle /\ AdjustIdle

\* this._documents.findIndex(d => d.name === doc.name && d.date === doc.date),
\* 1-based, 0 for -1
findIndex(docs, doc) ==
    LET matches == {i \in 1..Len(docs) : docs[i].name = doc.name /\ docs[i].date = doc.date}
    IN  IF matches = {} THEN 0 ELSE CHOOSE i \in matches : \A j \in matches : i <= j

\* docs.splice(index, 1)
splice(docs, index) ==
    [i \in 1..(Len(docs) - 1) |-> IF i < index THEN docs[i] ELSE docs[i + 1]]

\* The end of deleteDocument: the entry found by name and date is removed
documentsAfterDelete(docs, doc) ==
    LET index == findIndex(docs, doc)
    IN  IF index > 0 THEN splice(docs, index) ELSE docs

\* deleteDocument(doc), called from the list of the home page with one of
\* the documents, up to its first await
Library_deleteDocument ==
    /\ IF deletion = << >> THEN TRUE ELSE deletion.pc = "done"
    /\ \E i \in 1..Len(documents) :
         deletion' = [pc |-> "fullImage", doc |-> documents[i]]
    /\ UNCHANGED <<documents, files, nextFile, updates>>
    /\ UNCHANGED <<filterVars, orderVars, flowVars, editorVars, sizeVars, importVars, adjustVars>>

\* Filesystem.deleteFile of doc.fullImage has deleted the file
Delete_fullImageDeleted ==
    /\ deletion # << >> /\ deletion.pc = "fullImage"
    /\ deletion.doc.fullImage \in files
    /\ files' = files \ {deletion.doc.fullImage}
    /\ deletion' = [deletion EXCEPT !.pc = "thumbnail"]
    /\ UNCHANGED <<documents, nextFile, updates>>
    /\ UNCHANGED <<filterVars, orderVars, flowVars, editorVars, sizeVars, importVars, adjustVars>>

\* Filesystem.deleteFile of doc.fullImage throws; catch (e) { }
Delete_fullImageFails ==
    /\ deletion # << >> /\ deletion.pc = "fullImage"
    /\ deletion' = [deletion EXCEPT !.pc = "thumbnail"]
    /\ UNCHANGED <<documents, files, nextFile, updates>>
    /\ UNCHANGED <<filterVars, orderVars, flowVars, editorVars, sizeVars, importVars, adjustVars>>

\* Filesystem.deleteFile of doc.thumbnail has deleted the file; the entry is
\* looked up and removed
Delete_thumbnailDeleted ==
    /\ deletion # << >> /\ deletion.pc = "thumbnail"
    /\ deletion.doc.thumbnail \in files
    /\ files' = files \ {deletion.doc.thumbnail}
    /\ documents' = documentsAfterDelete(documents, deletion.doc)
    /\ deletion' = [deletion EXCEPT !.pc = "done"]
    /\ UNCHANGED <<nextFile, updates>>
    /\ UNCHANGED <<filterVars, orderVars, flowVars, editorVars, sizeVars, importVars, adjustVars>>

\* Filesystem.deleteFile of doc.thumbnail throws; catch (e) { }; the entry is
\* looked up and removed
Delete_thumbnailFails ==
    /\ deletion # << >> /\ deletion.pc = "thumbnail"
    /\ documents' = documentsAfterDelete(documents, deletion.doc)
    /\ deletion' = [deletion EXCEPT !.pc = "done"]
    /\ UNCHANGED <<files, nextFile, updates>>
    /\ UNCHANGED <<filterVars, orderVars, flowVars, editorVars, sizeVars, importVars, adjustVars>>

DeleteNext ==
    \/ Library_deleteDocument
    \/ Delete_fullImageDeleted
    \/ Delete_fullImageFails
    \/ Delete_thumbnailDeleted
    \/ Delete_thumbnailFails

DeleteSpec == LibraryInit /\ [][DeleteNext]_vars

\* C28: deleteDocument(doc) removes from the library exactly the entry doc
\* whose files it deletes and no other entry: for any library content,
\* including several entries with the same name and date, the entry removed
\* is doc itself and every other entry stays in the list with its files
\* intact.  (deleteDocument removes at most one entry; when the call has
\* ended, doc is not in the list and every entry in the list has its files.)
DeleteRemovesTheDocumentItself ==
    (deletion # << >> /\ deletion.pc = "done") =>
        /\ \A i \in 1..Len(documents) : documents[i].id # deletion.doc.id
        /\ \A i \in 1..Len(documents) :
             /\ documents[i].fullImage \in files
             /\ documents[i].thumbnail \in files

-----------------------------------------------------------------------------
(* UpdateSpec: updateDocument, called for documents of the library, one    *)
(* call after the other.  The call that runs is the last of updates.       *)

\* The entry of the library that is the object with identity id
IndexOf(docs, id) == CHOOSE i \in 1..Len(docs) : docs[i].id = id

\* A call of updateDocument that has returned
UpdateEnded(u) == u.pc \in {"done", "failed"}

\* An updateDocument whose catch block goes on to delete the old files,
\* where updateDocument only logs the error
afterWriteErrorCleansUp(u) == [u EXCEPT !.pc = "deleteOldFile", !.failed = TRUE]

\* catch (e) { console.error('Failed to update document files', e) }
afterWriteError(u) == [u EXCEPT !.pc = "failed", !.failed = TRUE]

\* updateDocument(originalDoc, ...) up to its first await: oldFile, oldThumb
\* and fileName are set
Library_updateDocument ==
    /\ Len(updates) < MaxUpdates
    /\ \A k \in 1..Len(updates) : UpdateEnded(updates[k])
    /\ \E i \in 1..Len(documents) :
         updates' = Append(updates,
                           [pc |-> "writeFile", doc |-> documents[i].id,
                            oldFile |-> documents[i].fullImage,
                            oldThumb |-> documents[i].thumbnail,
                            fileName |-> nextFile, thumbFileName |-> 0,
                            failed |-> FALSE])
    /\ nextFile' = nextFile + 1
    /\ UNCHANGED <<documents, files, deletion>>
    /\ UNCHANGED <<filterVars, orderVars, flowVars, editorVars, sizeVars, importVars, adjustVars>>

\* Filesystem.writeFile of the new file has written it; saveThumbnailToFile
\* names the thumbnail and writes
Update_fileWritten ==
    /\ updates # << >> /\ updates[Len(updates)].pc = "writeFile"
    /\ files' = files \cup {updates[Len(updates)].fileName}
    /\ updates' = [updates EXCEPT ![Len(updates)].pc = "writeThumbnail",
                                  ![Len(updates)].thumbFileName = nextFile]
    /\ nextFile' = nextFile + 1
    /\ UNCHANGED <<documents, deletion>>
    /\ UNCHANGED <<filterVars, orderVars, flowVars, editorVars, sizeVars, importVars, adjustVars>>

\* Filesystem.writeFile of the new file throws
Update_fileWriteFails ==
    /\ updates # << >> /\ updates[Len(updates)].pc = "writeFile"
    /\ updates' = [updates EXCEPT ![Len(updates)] = afterWriteError(@)]
    /\ UNCHANGED <<documents, files, nextFile, deletion>>
    /\ UNCHANGED <<filterVars, orderVars, flowVars, editorVars, sizeVars, importVars, adjustVars>>

\* saveThumbnailToFile has written the thumbnail: the record is given the
\* two new names, and resolveThumbnailUrl is awaited
Update_thumbnailWritten ==
    /\ updates # << >> /\ updates[Len(updates)].pc = "writeThumbnail"
    /\ LET u == updates[Len(updates)]
       IN  /\ files' = files \cup {u.thumbFileName}
           /\ documents' = [documents EXCEPT
                                ![IndexOf(documents, u.doc)].fullImage = u.fileName,
                                ![IndexOf(documents, u.doc)].thumbnail = u.thumbFileName]
    /\ updates' = [updates EXCEPT ![Len(updates)].pc = "resolve"]
    /\ UNCHANGED <<nextFile, deletion>>
    /\ UNCHANGED <<filterVars, orderVars, flowVars, editorVars, sizeVars, importVars, adjustVars>>

\* Filesystem.writeFile in saveThumbnailToFile throws
Update_thumbnailWriteFails ==
    /\ updates # << >> /\ updates[Len(updates)].pc = "writeThumbnail"
    /\ updates' = [updates EXCEPT ![Len(updates)] = afterWriteError(@)]
    /\ UNCHANGED <<documents, files, nextFile, deletion>>
    /\ UNCHANGED <<filterVars, orderVars, flowVars, editorVars, sizeVars, importVars, adjustVars>>

\* resolveThumbnailUrl, which catches its errors, has returned;
\* saveDocumentsList() is started and the clean-up begins
Update_thumbnailResolved ==
    /\ updates # << >> /\ updates[Len(updates)].pc = "resolve"
    /\ updates' = [updates EXCEPT ![Len(updates)].pc = "deleteOldFile"]
    /\ UNCHANGED <<documents, files, nextFile, deletion>>
    /\ UNCHANGED <<filterVars, orderVars, flowVars, editorVars, sizeVars, importVars, adjustVars>>

\* Filesystem.deleteFile of oldFile has deleted it
Update_oldFileDeleted ==
    /\ updates # << >> /\ updates[Len(updates)].pc = "deleteOldFile"
    /\ updates[Len(updates)].oldFile \in files
    /\ files' = files \ {updates[Len(updates)].oldFile}
    /\ updates' = [updates EXCEPT ![Len(updates)].pc = "deleteOldThumb"]
    /\ UNCHANGED <<documents, nextFile, deletion>>
    /\ UNCHANGED <<filterVars, orderVars, flowVars, editorVars, sizeVars, importVars, adjustVars>>

\* Filesystem.deleteFile of oldFile throws; catch (e) { }
Update_oldFileDeleteFails ==
    /\ updates # << >> /\ updates[Len(updates)].pc = "deleteOldFile"
    /\ updates' = [updates EXCEPT ![Len(updates)].pc = "deleteOldThumb"]
    /\ UNCHANGED <<documents, files, nextFile, deletion>>
    /\ UNCHANGED <<filterVars, orderVars, flowVars, editorVars, sizeVars, importVars, adjustVars>>

\* Filesystem.deleteFile of oldThumb has deleted it
Update_oldThumbDeleted ==
    /\ updates # << >> /\ updates[Len(updates)].pc = "deleteOldThumb"
    /\ updates[Len(updates)].oldThumb \in files
    /\ files' = files \ {updates[Len(updates)].oldThumb}
    /\ updates' = [updates EXCEPT ![Len(updates)].pc = "done"]
    /\ UNCHANGED <<documents, nextFile, deletion>>
    /\ UNCHANGED <<filterVars, orderVars, flowVars, editorVars, sizeVars, importVars, adjustVars>>

\* Filesystem.deleteFile of oldThumb throws; catch (e) { }
Update_oldThumbDeleteFails ==
    /\ updates # << >> /\ updates[Len(updates)].pc = "deleteOldThumb"
    /\ updates' = [updates EXCEPT ![Len(updates)].pc = "done"]
    /\ UNCHANGED <<documents, files, nextFile, deletion>>
    /\ UNCHANGED <<filterVars, orderVars, flowVars, editorVars, sizeVars, importVars, adjustVars>>

UpdateNext ==
    \/ Library_updateDocument
    \/ Update_fileWritten
    \/ Update_fileWriteFails
    \/ Update_thumbnailWritten
    \/ Update_thumbnailWriteFails
    \/ Update_thumbnailResolved
    \/ Update_oldFileDeleted
    \/ Update_oldFileDeleteFails
    \/ Update_oldThumbDeleted
    \/ Update_oldThumbDeleteFails

UpdateSpec == LibraryInit /\ [][UpdateNext]_vars

\* C29: at every point during and after updateDocument the document
\* record's fullImage and thumbnail name files that have been written and
\* not deleted; the old files are deleted only after both new files are
\* written and the record points to them; and if writing either new file
\* fails the record keeps its old fullImage and thumbnail and no old file is
\* deleted.
RecordNamesExistingFiles ==
    /\ \A i \in 1..Len(documents) :
         /\ documents[i].fullImage \in files
         /\ documents[i].thumbnail \in files
    /\ updates # << >> =>
         LET u == updates[Len(updates)]
             record == documents[IndexOf(documents, u.doc)]
         IN  /\ (u.oldFile \notin files \/ u.oldThumb \notin files) =>
                    /\ u.fileName \in files /\ u.thumbFileName \in files
                    /\ record.fullImage = u.fileName
                    /\ record.thumbnail = u.thumbFileName
             /\ u.failed =>
                    /\ record.fullImage = u.oldFile /\ record.thumbnail = u.oldThumb
                    /\ u.oldFile \in files /\ u.oldThumb \in files

\* A document updated a second time: the first call failed at the thumbnail
\* and left the record alone, the second replaced both files and deleted
\* the old ones
UpdatedAfterFailedUpdate ==
    /\ Len(updates) = 2
    /\ updates[1].doc = updates[2].doc
    /\ updates[1].pc = "failed" /\ updates[1].fileName \in files
    /\ updates[2].pc = "done"
    /\ updates[2].oldFile = updates[1].oldFile
    /\ updates[2].oldFile \notin files /\ updates[2].oldThumb \notin files
    /\ documents[IndexOf(documents, updates[2].doc)].fullImage = updates[2].fileName

=============================================================================
